---------------------------- MODULE Spec2Model ----------------------------
(***************************************************************************)
(* Verification model of the assignment-strategy engine of Eigen:         *)
(*   - copy_using_evaluator_traits (the traversal / unrolling classifier) *)
(*   - copy_using_evaluator_impl   (the executors)                        *)
(*   - ei_run_parallel_1d / ei_run_parallel_2d (parallel decomposition)   *)
(*   - Reverse (the reversed-view expression)                             *)
(* One specification per subsystem; the variables of the other subsystems  *)
(* stay at their idle value.                                               *)
(***************************************************************************)
EXTENDS Integers, Sequences, FiniteSets, TLC

VARIABLES
  pc,        \* which step of the modelled call has been reached
  dstType,   \* compile-time descriptor of the destination expression type
  srcType,   \* compile-time descriptor of the source expression type
  traits,    \* the enums computed by copy_using_evaluator_traits<Dst,Src>
  dst,       \* the destination object: shape, stride, base address, memory
  src,       \* the source object: shape, stride, base address
  trace,     \* the transfers the executor has issued, in program order
  failed,    \* an assertion has failed (the call was aborted)
  par,       \* the arguments and environment of an ei_run_parallel call
  calls,     \* the blocks passed to the block function, by loop index
  rev,       \* a matrix and the Reverse expressions wrapped around it
  view,      \* the coefficients read through the outermost expression
  prod,      \* a Product expression, its destination and coefficients read
  hseq,      \* a HouseholderSequence and the destination of its expansion
  perm,      \* permutations and the objects computed from them
  probe,     \* a call of the alignment probe and its result
  eig,       \* a SelfAdjointEigenSolver, its eigenvalues and eigenvectors
  pool       \* a ThreadPool with its threads, and a Notification

vars == <<pc, dstType, srcType, traits, dst, src, trace, failed,
          par, calls, rev, view, prod, hseq, perm, probe, eig,
          pool>>

parVars == <<par, calls>>
revVars == <<rev, view>>
algVars == <<prod, hseq, perm, probe, eig>>

(***************************************************************************)
(* Program constants.                                                      *)
(***************************************************************************)
Dynamic == -10
EIGEN_UNROLLING_LIMIT == 16
PacketSize == 4
MaxThreads == 16

(***************************************************************************)
(* Bounds of the model.                                                    *)
(***************************************************************************)
MaxStaticInner == 12   \* largest compile-time inner dimension (3 packets)
MaxStaticOuter == 2    \* largest compile-time outer dimension
MaxInner == 8          \* largest run-time inner dimension (2 packets)
MaxOuter == 2          \* largest run-time outer dimension
MaxPad == 1            \* largest outer stride minus inner dimension
MaxBase == 1           \* largest address (in scalars) of an operand's first element
MaxDim == 3            \* largest dimension of operands of differing shapes
MaxProcs == 17         \* largest number of processors
MaxSize1 == 17         \* largest 1-D domain
MaxSize2 == 5          \* largest side of a 2-D domain
MaxRevDim == 6         \* largest dimension of a reversed matrix
MaxDepth == 2          \* most Reverse expressions wrapped around a matrix
MaxProdDim == 2        \* most rows of the left and columns of the right factor
MaxProdInner == 5      \* most columns of the left factor of a product
MaxHDim == 3           \* most rows of a Householder sequence
MaxEvals == 2          \* most expansions of one Householder sequence
MaxWorkers == 2        \* most threads of a ThreadPool
MaxFns == 2            \* most functions enqueued in a ThreadPool
MaxWaiters == 2        \* most threads waiting for Notifications
MaxNotifyThreads == 1  \* most threads of a ThreadPool that runs notifying functions
MaxPermSize == 3       \* most rows of a permutation matrix
MaxAddress == 40       \* largest address, in bytes, of a probed pointer
MaxProbe == 5          \* largest maxOffset of an alignment probe
MaxSliceInner == 6     \* largest inner dimension of a probed destination
MaxSlices == 3         \* largest outer dimension of a probed destination
MaxStridePad == 3      \* largest outer stride minus inner dimension, probed
MaxBaseAlign == 3      \* largest address of a probed destination's first element
MaxEigenSize == 4      \* largest number of eigenvalues sorted
MaxEigenValue == 2     \* largest eigenvalue, eigenvalues being 0 .. MaxEigenValue

Min(a, b) == IF a <= b THEN a ELSE b

Null == [none |-> TRUE]

\* the idle values of the variables a specification does not use
IdleAssign ==
  /\ dstType = Null /\ srcType = Null /\ traits = Null
  /\ dst = Null /\ src = Null /\ trace = <<>>
IdleParallel == par = Null /\ calls = <<>>
IdleReverse == rev = Null /\ view = Null
IdleAlgebra ==
  prod = Null /\ hseq = Null /\ perm = Null /\ probe = Null /\ eig = Null
IdlePool == pool = Null

(***************************************************************************)
(* Expression-type descriptors: the members of Derived / OtherDerived      *)
(* that copy_using_evaluator_traits reads.                                 *)
(***************************************************************************)
IsRowMajor(X) == X.RowMajor

IsVectorAtCompileTime(X) == X.Rows = 1 \/ X.Cols = 1

SizeAtCompileTime(X) ==
  IF X.Rows = Dynamic \/ X.Cols = Dynamic THEN Dynamic ELSE X.Rows * X.Cols

MaxSizeOfType(X) ==
  IF X.MaxRows = Dynamic \/ X.MaxCols = Dynamic THEN Dynamic
  ELSE X.MaxRows * X.MaxCols

(***************************************************************************)
(* Part 1 of AssignEvaluator.h: copy_using_evaluator_traits.               *)
(***************************************************************************)
DstIsAligned(D) == D.Aligned
DstHasDirectAccess(D) == D.Direct
SrcIsAligned(S) == S.Aligned

JointAlignment(D, S) ==
  IF DstIsAligned(D) /\ SrcIsAligned(S) THEN "Aligned" ELSE "Unaligned"

InnerSize(D) ==
  IF IsVectorAtCompileTime(D) THEN SizeAtCompileTime(D)
  ELSE IF D.RowMajor THEN D.Cols
  ELSE D.Rows

InnerMaxSize(D) ==
  IF IsVectorAtCompileTime(D) THEN MaxSizeOfType(D)
  ELSE IF D.RowMajor THEN D.MaxCols
  ELSE D.MaxRows

\* the enum member named MaxSizeAtCompileTime inside the traits class
MaxSizeAtCompileTime(D) == SizeAtCompileTime(D)

StorageOrdersAgree(D, S) == IsRowMajor(D) = IsRowMajor(S)

MightVectorize(D, S) == StorageOrdersAgree(D, S) /\ D.Packet /\ S.Packet

MayInnerVectorize(D, S) ==
  /\ MightVectorize(D, S)
  /\ InnerSize(D) # Dynamic
  /\ InnerSize(D) % PacketSize = 0
  /\ DstIsAligned(D)
  /\ SrcIsAligned(S)

MayLinearize(D, S) == StorageOrdersAgree(D, S) /\ D.Linear /\ S.Linear

MayLinearVectorize(D, S) ==
  /\ MightVectorize(D, S)
  /\ MayLinearize(D, S)
  /\ DstHasDirectAccess(D)
  /\ (DstIsAligned(D) \/ MaxSizeAtCompileTime(D) = Dynamic)

MaySliceVectorize(D, S) ==
  /\ MightVectorize(D, S)
  /\ DstHasDirectAccess(D)
  /\ (InnerMaxSize(D) = Dynamic \/ InnerMaxSize(D) >= 3 * PacketSize)

\* linear vectorization tried before inner vectorization
Mut_Traversal(D, S) ==
  IF MayLinearVectorize(D, S) THEN "LinearVectorized"
  ELSE IF MayInnerVectorize(D, S) THEN "InnerVectorized"
  ELSE IF MaySliceVectorize(D, S) THEN "SliceVectorized"
  ELSE IF MayLinearize(D, S) THEN "Linear"
  ELSE "Default"

Traversal(D, S) ==
  IF MayInnerVectorize(D, S) THEN "InnerVectorized"
  ELSE IF MayLinearVectorize(D, S) THEN "LinearVectorized"
  ELSE IF MaySliceVectorize(D, S) THEN "SliceVectorized"
  ELSE IF MayLinearize(D, S) THEN "Linear"
  ELSE "Default"

Vectorized(D, S) ==
  \/ Traversal(D, S) = "InnerVectorized"
  \/ Traversal(D, S) = "LinearVectorized"
  \/ Traversal(D, S) = "SliceVectorized"

\* the limit of a traversal that moves scalars, whatever the traversal
Mut_UnrollingLimit(D, S) == EIGEN_UNROLLING_LIMIT

UnrollingLimit(D, S) ==
  EIGEN_UNROLLING_LIMIT * (IF Vectorized(D, S) THEN PacketSize ELSE 1)

MayUnrollCompletely(D, S) ==
  /\ SizeAtCompileTime(D) # Dynamic
  /\ S.Cost # Dynamic
  /\ SizeAtCompileTime(D) * S.Cost <= UnrollingLimit(D, S)

MayUnrollInner(D, S) ==
  /\ InnerSize(D) # Dynamic
  /\ S.Cost # Dynamic
  /\ InnerSize(D) * S.Cost <= UnrollingLimit(D, S)

\* a Linear traversal unrolled like a Default one
Mut_Unrolling(D, S) ==
  IF Traversal(D, S) \in {"InnerVectorized", "Default", "Linear"}
    THEN (IF MayUnrollCompletely(D, S) THEN "Complete"
          ELSE IF MayUnrollInner(D, S) THEN "Inner"
          ELSE "None")
  ELSE IF Traversal(D, S) = "LinearVectorized"
    THEN (IF MayUnrollCompletely(D, S) /\ DstIsAligned(D) THEN "Complete"
          ELSE "None")
  ELSE "None"

Unrolling(D, S) ==
  IF Traversal(D, S) \in {"InnerVectorized", "Default"}
    THEN (IF MayUnrollCompletely(D, S) THEN "Complete"
          ELSE IF MayUnrollInner(D, S) THEN "Inner"
          ELSE "None")
  ELSE IF Traversal(D, S) = "LinearVectorized"
    THEN (IF MayUnrollCompletely(D, S) /\ DstIsAligned(D) THEN "Complete"
          ELSE "None")
  ELSE IF Traversal(D, S) = "Linear"
    THEN (IF MayUnrollCompletely(D, S) THEN "Complete" ELSE "None")
  ELSE "None"

(***************************************************************************)
(* The expression types the classifier is instantiated with.               *)
(***************************************************************************)
StaticInnerSizes == {Dynamic} \cup (0 .. MaxStaticInner)
StaticOuterSizes == {Dynamic} \cup (0 .. MaxStaticOuter)
MaxOf(n, bound) == IF n = Dynamic THEN {Dynamic, bound} ELSE {n}
CoeffReadCosts == {Dynamic, 1, 5}

\* a destination type, given by its storage order and its inner / outer
\* compile-time dimensions
DstTypeOf(rm, inner, outer, maxInner, maxOuter, pk, lin, dir, al) ==
  [RowMajor |-> rm,
   Rows     |-> IF rm THEN outer ELSE inner,
   Cols     |-> IF rm THEN inner ELSE outer,
   MaxRows  |-> IF rm THEN maxOuter ELSE maxInner,
   MaxCols  |-> IF rm THEN maxInner ELSE maxOuter,
   Packet   |-> pk, Linear |-> lin, Direct |-> dir, Aligned |-> al]

DstTypes ==
  { DstTypeOf(rm, inner, outer, maxInner, maxOuter, pk, lin, dir, al) :
      rm \in BOOLEAN, pk \in BOOLEAN, lin \in BOOLEAN, dir \in BOOLEAN,
      al \in BOOLEAN,
      <<inner, maxInner>> \in
         UNION { {<<n, m>> : m \in MaxOf(n, MaxStaticInner)} :
                 n \in StaticInnerSizes },
      <<outer, maxOuter>> \in
         UNION { {<<n, m>> : m \in MaxOf(n, MaxStaticOuter)} :
                 n \in StaticOuterSizes } }

SrcTypes ==
  [RowMajor : BOOLEAN, Packet : BOOLEAN, Linear : BOOLEAN, Aligned : BOOLEAN,
   Cost : CoeffReadCosts]

(***************************************************************************)
(* Instantiating copy_using_evaluator_traits<Derived, OtherDerived>.       *)
(***************************************************************************)
InitTraits ==
  /\ pc = "declared"
  /\ dstType \in DstTypes
  /\ srcType \in SrcTypes
  /\ traits = Null
  /\ dst = Null
  /\ src = Null
  /\ trace = <<>>
  /\ failed = FALSE
  /\ IdleAlgebra
  /\ IdlePool
  /\ IdleParallel
  /\ IdleReverse

Instantiate ==
  /\ pc = "declared"
  /\ traits' = [Traversal |-> Traversal(dstType, srcType),
                Vectorized |-> Vectorized(dstType, srcType),
                MayUnrollCompletely |-> MayUnrollCompletely(dstType, srcType),
                MayUnrollInner |-> MayUnrollInner(dstType, srcType),
                Unrolling |-> Unrolling(dstType, srcType)]
  /\ pc' = "classified"
  /\ UNCHANGED <<dstType, srcType, dst, src, trace, failed, parVars, revVars,
                 algVars, pool>>

NextTraits == Instantiate

SpecTraits == InitTraits /\ [][NextTraits]_vars

(***************************************************************************)
(* Run-time objects.  An operand is a strided array of scalars: element    *)
(* (row, col) lives `stride` scalars after the start of its outer slice.   *)
(* Addresses are counted in scalars; `base` is the address of element      *)
(* (0, 0), offsets are relative to it.                                     *)
(***************************************************************************)
Offset(X, obj, row, col) ==
  IF X.RowMajor THEN row * obj.stride + col ELSE col * obj.stride + row

\* the (row, col) stored at an offset, <<-1, -1>> for an offset that holds
\* no element of the object
PositionAt(X, obj, off) ==
  LET o == off \div obj.stride
      i == off % obj.stride
      r == IF X.RowMajor THEN o ELSE i
      c == IF X.RowMajor THEN i ELSE o
  IN  IF off >= 0 /\ obj.stride > 0 /\ r < obj.rows /\ c < obj.cols
      THEN <<r, c>> ELSE <<-1, -1>>

Positions(obj) == (0 .. obj.rows - 1) \X (0 .. obj.cols - 1)

\* the value of the source expression at (row, col): distinct per position
CoeffValue(row, col) == 1 + row * (MaxInner + MaxPad + 2) + col

\* what a read outside the source may return
GarbageValues == {-1, 0}

SrcRead(S, s, off, garbage) ==
  LET p == PositionAt(S, s, off)
  IN  IF p = <<-1, -1>> THEN garbage ELSE CoeffValue(p[1], p[2])

size(obj) == obj.rows * obj.cols

innerSize(X, obj) ==
  IF IsVectorAtCompileTime(X) THEN size(obj)
  ELSE IF X.RowMajor THEN obj.cols
  ELSE obj.rows

outerSize(X, obj) ==
  IF IsVectorAtCompileTime(X) THEN 1
  ELSE IF X.RowMajor THEN obj.rows
  ELSE obj.cols

InnerSizeAtCompileTime(X) ==
  IF IsVectorAtCompileTime(X) THEN SizeAtCompileTime(X)
  ELSE IF X.RowMajor THEN X.Cols
  ELSE X.Rows

(***************************************************************************)
(* Coeffs.h: the (outer, inner) -> (row, col) mapping.                     *)
(***************************************************************************)
\* the storage order ignored
Mut_rowIndexByOuterInner(X, outer, inner) ==
  IF X.Rows = 1 THEN 0 ELSE inner

rowIndexByOuterInner(X, outer, inner) ==
  IF X.Rows = 1 THEN 0
  ELSE IF X.Cols = 1 THEN inner
  ELSE IF X.RowMajor THEN outer
  ELSE inner

colIndexByOuterInner(X, outer, inner) ==
  IF X.Cols = 1 THEN 0
  ELSE IF X.Rows = 1 THEN inner
  ELSE IF X.RowMajor THEN inner
  ELSE outer

(***************************************************************************)
(* Memory.h: the alignment probe.  ptr is an address in scalars, so        *)
(* size_t(ptr)/sizeof(Scalar) is ptr itself; x & PacketAlignedMask is      *)
(* x % PacketSize for the power of two PacketSize.                         *)
(***************************************************************************)
PacketAlignedMask == PacketSize - 1

BitAndMask(x) == x % (PacketAlignedMask + 1)

Mut_ei_alignmentOffset(ptr, maxOffset) ==
  BitAndMask(PacketSize - BitAndMask(ptr))

ei_alignmentOffset(ptr, maxOffset) ==
  IF PacketSize > 1
  THEN Min(BitAndMask(PacketSize - BitAndMask(ptr)), maxOffset)
  ELSE 0

first_aligned(ptr, maxOffset) == ei_alignmentOffset(ptr, maxOffset)

\* packet_traits<Scalar>::AlignedOnScalar
AlignedOnScalar == TRUE

(***************************************************************************)
(* Transfers.  A transfer is <<kind, dstOffset, srcOffset, store, load>>:  *)
(* one scalar ("coeff") or PacketSize consecutive scalars ("packet"), with *)
(* the alignment mode of the packet store and load.                        *)
(***************************************************************************)
copyCoeffByRowCol(a, row, col) ==
  <<"coeff", Offset(a.D, a.d, row, col), Offset(a.S, a.s, row, col),
    "Unaligned", "Unaligned">>

copyCoeffByIndex(a, index) ==
  <<"coeff", index, index, "Unaligned", "Unaligned">>

copyPacketByRowCol(a, row, col, store, load) ==
  <<"packet", Offset(a.D, a.d, row, col), Offset(a.S, a.s, row, col),
    store, load>>

copyPacketByIndex(a, index, store, load) ==
  <<"packet", index, index, store, load>>

\* a template recursion that stepped past its Stop never terminates
Runaway == <<"runaway", 0, 0, "Unaligned", "Unaligned">>

(***************************************************************************)
(* Loop control.                                                           *)
(***************************************************************************)
\* for(i = start; i < end; i += step): the values i takes
RECURSIVE ForLoop(_, _, _)
ForLoop(start, end, step) ==
  IF start < end THEN <<start>> \o ForLoop(start + step, end, step) ELSE <<>>

\* a recursion whose last step is taken for the end
RECURSIVE Mut_MetaUnroll(_, _, _)
Mut_MetaUnroll(Index, Stop, step) ==
  IF Index + step >= Stop THEN <<>>
  ELSE <<Index>> \o Mut_MetaUnroll(Index + step, Stop, step)

\* <Index, Stop> recursion ended by the <Stop, Stop> specialization: the
\* values Index takes; -1 marks a recursion that has missed Stop
RECURSIVE MetaUnroll(_, _, _)
MetaUnroll(Index, Stop, step) ==
  IF Index = Stop THEN <<>>
  ELSE IF Index > Stop THEN <<-1>>
  ELSE <<Index>> \o MetaUnroll(Index + step, Stop, step)

RECURSIVE Flatten(_)
Flatten(seqs) ==
  IF seqs = <<>> THEN <<>> ELSE Head(seqs) \o Flatten(Tail(seqs))

Map1(idx, Body(_)) == [k \in 1 .. Len(idx) |-> Body(idx[k])]

(***************************************************************************)
(* Part 2 of AssignEvaluator.h: the meta-unrollers.                        *)
(***************************************************************************)
copy_using_evaluator_DefaultTraversal_CompleteUnrolling(a, Index0, Stop) ==
  LET Body(Index) ==
        IF Index = -1 THEN Runaway
        ELSE LET outer == Index \div InnerSizeAtCompileTime(a.D)
                 inner == Index % InnerSizeAtCompileTime(a.D)
             IN  copyCoeffByRowCol(a, rowIndexByOuterInner(a.D, outer, inner),
                                      colIndexByOuterInner(a.D, outer, inner))
  IN  Map1(MetaUnroll(Index0, Stop, 1), Body)

copy_using_evaluator_DefaultTraversal_InnerUnrolling(a, Index0, Stop, outer) ==
  LET Body(Index) ==
        IF Index = -1 THEN Runaway
        ELSE copyCoeffByRowCol(a, rowIndexByOuterInner(a.D, outer, Index),
                                  colIndexByOuterInner(a.D, outer, Index))
  IN  Map1(MetaUnroll(Index0, Stop, 1), Body)

copy_using_evaluator_LinearTraversal_CompleteUnrolling(a, Index0, Stop) ==
  LET Body(Index) ==
        IF Index = -1 THEN Runaway ELSE copyCoeffByIndex(a, Index)
  IN  Map1(MetaUnroll(Index0, Stop, 1), Body)

copy_using_evaluator_innervec_CompleteUnrolling(a, Index0, Stop) ==
  LET Body(Index) ==
        IF Index = -1 THEN Runaway
        ELSE LET outer == Index \div InnerSizeAtCompileTime(a.D)
                 inner == Index % InnerSizeAtCompileTime(a.D)
             IN  copyPacketByRowCol(a, rowIndexByOuterInner(a.D, outer, inner),
                                       colIndexByOuterInner(a.D, outer, inner),
                                    "Aligned", JointAlignment(a.D, a.S))
  IN  Map1(MetaUnroll(Index0, Stop, PacketSize), Body)

copy_using_evaluator_innervec_InnerUnrolling(a, Index0, Stop, outer) ==
  LET Body(Index) ==
        IF Index = -1 THEN Runaway
        ELSE copyPacketByRowCol(a, rowIndexByOuterInner(a.D, outer, Index),
                                   colIndexByOuterInner(a.D, outer, Index),
                                "Aligned", "Aligned")
  IN  Map1(MetaUnroll(Index0, Stop, PacketSize), Body)

(***************************************************************************)
(* Part 3 of AssignEvaluator.h: copy_using_evaluator_impl, one operator    *)
(* per <Traversal, Unrolling> specialization.  Each returns the transfers  *)
(* the specialization issues, in program order.                            *)
(***************************************************************************)
impl_Default_NoUnrolling(a) ==
  LET Inner(outer) ==
        LET Body(inner) ==
              copyCoeffByRowCol(a, rowIndexByOuterInner(a.D, outer, inner),
                                   colIndexByOuterInner(a.D, outer, inner))
        IN  Map1(ForLoop(0, innerSize(a.D, a.d), 1), Body)
  IN  Flatten(Map1(ForLoop(0, outerSize(a.D, a.d), 1), Inner))

impl_Default_CompleteUnrolling(a) ==
  copy_using_evaluator_DefaultTraversal_CompleteUnrolling(
     a, 0, SizeAtCompileTime(a.D))

impl_Default_InnerUnrolling(a) ==
  LET Inner(outer) ==
        copy_using_evaluator_DefaultTraversal_InnerUnrolling(
           a, 0, InnerSizeAtCompileTime(a.D), outer)
  IN  Flatten(Map1(ForLoop(0, outerSize(a.D, a.d), 1), Inner))

\* the scalar loop lost in both specializations
Mut_unaligned_copy(IsAligned, a, start, end) == <<>>

\* unaligned_copy_using_evaluator_impl<IsAligned>::run(src, dst, start, end)
unaligned_copy_using_evaluator_impl(IsAligned, a, start, end) ==
  IF IsAligned THEN <<>>
  ELSE LET Body(index) == copyCoeffByIndex(a, index)
       IN  Map1(ForLoop(start, end, 1), Body)

\* alignedStart of the linear-vectorized executor (line 437)
Linear_alignedStart(a) ==
  IF DstIsAligned(a.D) THEN 0 ELSE first_aligned(a.d.base, size(a.d))

\* an alignedEnd that counts the packets from index 0
Mut_Linear_alignedEnd(a) ==
  Linear_alignedStart(a) + (size(a.d) \div PacketSize) * PacketSize

\* alignedEnd of the linear-vectorized executor (line 438)
Linear_alignedEnd(a) ==
  Linear_alignedStart(a)
  + ((size(a.d) - Linear_alignedStart(a)) \div PacketSize) * PacketSize

impl_LinearVectorized_NoUnrolling(a) ==
  LET sz           == size(a.d)
      dstIsAligned == DstIsAligned(a.D)
      dstAlignment == IF AlignedOnScalar \/ dstIsAligned
                      THEN "Aligned" ELSE "Unaligned"
      srcAlignment == JointAlignment(a.D, a.S)
      alignedStart == Linear_alignedStart(a)
      alignedEnd   == Linear_alignedEnd(a)
      Body(index)  == copyPacketByIndex(a, index, dstAlignment, srcAlignment)
  IN  unaligned_copy_using_evaluator_impl(dstIsAligned, a, 0, alignedStart)
      \o Map1(ForLoop(alignedStart, alignedEnd, PacketSize), Body)
      \o unaligned_copy_using_evaluator_impl(FALSE, a, alignedEnd, sz)

impl_LinearVectorized_CompleteUnrolling(a) ==
  LET sz          == SizeAtCompileTime(a.D)
      alignedSize == (sz \div PacketSize) * PacketSize
  IN  copy_using_evaluator_innervec_CompleteUnrolling(a, 0, alignedSize)
      \o copy_using_evaluator_DefaultTraversal_CompleteUnrolling(
            a, alignedSize, sz)

impl_InnerVectorized_NoUnrolling(a) ==
  LET Inner(outer) ==
        LET Body(inner) ==
              copyPacketByRowCol(a, rowIndexByOuterInner(a.D, outer, inner),
                                    colIndexByOuterInner(a.D, outer, inner),
                                 "Aligned", "Aligned")
        IN  Map1(ForLoop(0, innerSize(a.D, a.d), PacketSize), Body)
  IN  Flatten(Map1(ForLoop(0, outerSize(a.D, a.d), 1), Inner))

impl_InnerVectorized_CompleteUnrolling(a) ==
  copy_using_evaluator_innervec_CompleteUnrolling(a, 0, SizeAtCompileTime(a.D))

impl_InnerVectorized_InnerUnrolling(a) ==
  LET Inner(outer) ==
        copy_using_evaluator_innervec_InnerUnrolling(
           a, 0, InnerSizeAtCompileTime(a.D), outer)
  IN  Flatten(Map1(ForLoop(0, outerSize(a.D, a.d), 1), Inner))

impl_Linear_NoUnrolling(a) ==
  LET Body(i) == copyCoeffByIndex(a, i)
  IN  Map1(ForLoop(0, size(a.d), 1), Body)

impl_Linear_CompleteUnrolling(a) ==
  copy_using_evaluator_LinearTraversal_CompleteUnrolling(
     a, 0, SizeAtCompileTime(a.D))

\* a next alignedStart that does not wrap around at the packet size
Mut_NextAlignedStart(alignedStart, alignedStep, inner) ==
  Min(alignedStart + alignedStep, inner)

\* the alignedStart of the next slice (line 630)
NextAlignedStart(alignedStart, alignedStep, inner) ==
  Min((alignedStart + alignedStep) % PacketSize, inner)

\* an alignedStep that counts the stride's excess, not what it lacks
Mut_Slice_alignedStep(a) ==
  IF AlignedOnScalar
  THEN BitAndMask(a.d.stride % PacketSize)
  ELSE 0

\* alignedStep of the slice-vectorized executor (line 602)
Slice_alignedStep(a) ==
  IF AlignedOnScalar
  THEN BitAndMask(PacketSize - (a.d.stride % PacketSize))
  ELSE 0

\* alignedStart of the slice-vectorized executor on entering slice outer:
\* lines 603 - 604 for the first slice, line 630 for the next ones
RECURSIVE Slice_alignedStart(_, _)
Slice_alignedStart(a, outer) ==
  IF outer <= 0
  THEN (IF (~AlignedOnScalar) \/ DstIsAligned(a.D) THEN 0
        ELSE first_aligned(a.d.base, innerSize(a.D, a.d)))
  ELSE NextAlignedStart(Slice_alignedStart(a, outer - 1), Slice_alignedStep(a),
                        innerSize(a.D, a.d))

\* the body of the outer loop of the slice-vectorized executor, for the
\* slices outer .. outerSize-1, entered with the given alignedStart
RECURSIVE SliceOuterLoop(_, _, _, _, _)
SliceOuterLoop(a, outer, alignedStart, alignedStep, dstAlignment) ==
  LET inner      == innerSize(a.D, a.d)
      alignedEnd == alignedStart
                    + ((inner - alignedStart) \div PacketSize) * PacketSize
      Scalar(i)  == copyCoeffByRowCol(a, rowIndexByOuterInner(a.D, outer, i),
                                         colIndexByOuterInner(a.D, outer, i))
      Packet(i)  == copyPacketByRowCol(a, rowIndexByOuterInner(a.D, outer, i),
                                          colIndexByOuterInner(a.D, outer, i),
                                       dstAlignment, JointAlignment(a.D, a.S))
  IN  IF outer < outerSize(a.D, a.d)
      THEN Map1(ForLoop(0, alignedStart, 1), Scalar)
           \o Map1(ForLoop(alignedStart, alignedEnd, PacketSize), Packet)
           \o Map1(ForLoop(alignedEnd, inner, 1), Scalar)
           \o SliceOuterLoop(a, outer + 1,
                             NextAlignedStart(alignedStart, alignedStep, inner),
                             alignedStep, dstAlignment)
      ELSE <<>>

impl_SliceVectorized_NoUnrolling(a) ==
  LET alignable    == AlignedOnScalar
      dstAlignment == IF alignable \/ DstIsAligned(a.D)
                      THEN "Aligned" ELSE "Unaligned"
      alignedStep  == Slice_alignedStep(a)
      alignedStart == Slice_alignedStart(a, 0)
  IN  SliceOuterLoop(a, 0, alignedStart, alignedStep, dstAlignment)

\* copy_using_evaluator_impl<Dst, Src, Traversal, Unrolling>::run
copy_using_evaluator_impl(a, traversal, unrolling) ==
  CASE traversal = "Default" /\ unrolling = "None" ->
         impl_Default_NoUnrolling(a)
    [] traversal = "Default" /\ unrolling = "Complete" ->
         impl_Default_CompleteUnrolling(a)
    [] traversal = "Default" /\ unrolling = "Inner" ->
         impl_Default_InnerUnrolling(a)
    [] traversal = "LinearVectorized" /\ unrolling = "None" ->
         impl_LinearVectorized_NoUnrolling(a)
    [] traversal = "LinearVectorized" /\ unrolling = "Complete" ->
         impl_LinearVectorized_CompleteUnrolling(a)
    [] traversal = "InnerVectorized" /\ unrolling = "None" ->
         impl_InnerVectorized_NoUnrolling(a)
    [] traversal = "InnerVectorized" /\ unrolling = "Complete" ->
         impl_InnerVectorized_CompleteUnrolling(a)
    [] traversal = "InnerVectorized" /\ unrolling = "Inner" ->
         impl_InnerVectorized_InnerUnrolling(a)
    [] traversal = "Linear" /\ unrolling = "None" ->
         impl_Linear_NoUnrolling(a)
    [] traversal = "Linear" /\ unrolling = "Complete" ->
         impl_Linear_CompleteUnrolling(a)
    [] traversal = "SliceVectorized" /\ unrolling = "None" ->
         impl_SliceVectorized_NoUnrolling(a)

(***************************************************************************)
(* The effect of a sequence of transfers on the destination's memory.      *)
(***************************************************************************)
Width(t) == IF t[1] = "packet" THEN PacketSize ELSE 1

\* the scalar moves <<dstOffset, srcOffset>> of a sequence of transfers
Moves(tr) ==
  Flatten([k \in 1 .. Len(tr) |->
             IF tr[k][1] = "runaway" THEN <<>>
             ELSE [j \in 1 .. Width(tr[k]) |->
                     <<tr[k][2] + j - 1, tr[k][3] + j - 1>>]])

RECURSIVE Store(_, _, _, _, _)
Store(mem, S, s, moves, garbage) ==
  IF moves = <<>> THEN mem
  ELSE LET m == Head(moves)
           v == SrcRead(S, s, m[2], garbage)
       IN  Store(IF m[1] \in DOMAIN mem THEN [mem EXCEPT ![m[1]] = v] ELSE mem,
                 S, s, Tail(moves), garbage)

(***************************************************************************)
(* Part 4 of AssignEvaluator.h: the entry point copy_using_evaluator, on   *)
(* operands of the same shape whose capability bits are truthful.          *)
(***************************************************************************)
AssignCosts == {Dynamic, 1}

\* a vector type has the storage order of its one dimension
NaturalOrder(sInner, inner, sOuter, outer) ==
  (sInner /\ inner = 1) => (sOuter /\ outer = 1)

PhysRows(rm, inner, outer) == IF rm THEN outer ELSE inner
PhysCols(rm, inner, outer) == IF rm THEN inner ELSE outer

DstObject(rm, inner, outer, pad, base) ==
  [rows   |-> PhysRows(rm, inner, outer),
   cols   |-> PhysCols(rm, inner, outer),
   stride |-> inner + pad,
   base   |-> base,
   data   |-> [off \in 0 .. (outer * (inner + pad) - 1) |-> 0]]

SrcObject(rm, rows, cols, pad, base) ==
  [rows   |-> rows,
   cols   |-> cols,
   stride |-> (IF rm THEN cols ELSE rows) + pad,
   base   |-> base]

StaticOr(isStatic, n) == IF isStatic THEN n ELSE Dynamic

\* the operands of one assignment: a destination of the given layout and a
\* source of the given shape
Operands(rm, inner, outer, sInner, sOuter, pk, lin, dir, al, pad, base, srm, spk, slin, sal, cost, srows, scols) ==
  /\ dstType = DstTypeOf(rm, StaticOr(sInner, inner), StaticOr(sOuter, outer),
                         StaticOr(sInner, inner), StaticOr(sOuter, outer),
                         pk, lin, dir, al)
  /\ dst = DstObject(rm, inner, outer, pad, base)
  /\ srcType = [RowMajor |-> srm, Packet |-> spk, Linear |-> slin,
                Aligned |-> sal, Cost |-> cost]
  /\ src = SrcObject(srm, srows, scols, IF slin THEN 0 ELSE MaxPad,
                     IF sal THEN 0 ELSE 1)

\* the aligned bit promises a packet-aligned first element, the linear bit
\* an object without padding between its slices
TruthfulDst(lin, al, pad, base) ==
  /\ lin <=> (pad = 0)
  /\ al => (base % PacketSize = 0)

\* a source of the other storage order is copied coefficient by coefficient
\* whatever its capability bits: one combination of them stands for all
OtherOrderPlain(rm, srm, spk, slin, sal) ==
  (srm # rm) => (spk /\ slin /\ sal)

InitAssign ==
  /\ pc = "assign"
  /\ traits = Null
  /\ trace = <<>>
  /\ failed = FALSE
  /\ IdleAlgebra
  /\ IdlePool
  /\ IdleParallel
  /\ IdleReverse
  /\ \E rm \in BOOLEAN, inner \in 0 .. MaxInner, outer \in 0 .. MaxOuter,
        sInner \in BOOLEAN, sOuter \in BOOLEAN,
        pk \in BOOLEAN, lin \in BOOLEAN, dir \in BOOLEAN, al \in BOOLEAN,
        pad \in 0 .. MaxPad, base \in 0 .. MaxBase,
        srm \in BOOLEAN, spk \in BOOLEAN, slin \in BOOLEAN, sal \in BOOLEAN,
        cost \in AssignCosts :
       /\ NaturalOrder(sInner, inner, sOuter, outer)
       /\ TruthfulDst(lin, al, pad, base)
       /\ OtherOrderPlain(rm, srm, spk, slin, sal)
       /\ Operands(rm, inner, outer, sInner, sOuter, pk, lin, dir, al, pad,
                   base, srm, spk, slin, sal, cost,
                   PhysRows(rm, inner, outer), PhysCols(rm, inner, outer))

Assignment == [D |-> dstType, S |-> srcType, d |-> dst, s |-> src]

\* copy_using_evaluator_impl<Dst, Src, traversal, unrolling>::run(dst, src)
\* on the destination object d, leaving the control state at label
RunImplOn(d, traversal, unrolling, label) ==
  LET tr == copy_using_evaluator_impl([Assignment EXCEPT !.d = d],
                                      traversal, unrolling)
  IN  /\ trace' = tr
      /\ \E garbage \in GarbageValues :
            dst' = [d EXCEPT !.data = Store(d.data, srcType, src,
                                            Moves(tr), garbage)]
      /\ traits' = [Traversal |-> traversal, Unrolling |-> unrolling]
      /\ pc' = label
      /\ UNCHANGED <<dstType, srcType, src, failed, parVars, revVars,
                     algVars, pool>>

RunImpl(traversal, unrolling) == RunImplOn(dst, traversal, unrolling, "done")

\* copy_using_evaluator(dst, src): the specialization the traits select
copy_using_evaluator(traversal, unrolling) ==
  /\ pc = "assign"
  /\ Traversal(dstType, srcType) = traversal
  /\ Unrolling(dstType, srcType) = unrolling
  /\ RunImpl(traversal, unrolling)

Assign_Default_NoUnrolling == copy_using_evaluator("Default", "None")
Assign_Default_CompleteUnrolling == copy_using_evaluator("Default", "Complete")
Assign_Default_InnerUnrolling == copy_using_evaluator("Default", "Inner")
Assign_LinearVectorized_NoUnrolling ==
  copy_using_evaluator("LinearVectorized", "None")
Assign_LinearVectorized_CompleteUnrolling ==
  copy_using_evaluator("LinearVectorized", "Complete")
Assign_InnerVectorized_NoUnrolling ==
  copy_using_evaluator("InnerVectorized", "None")
Assign_InnerVectorized_CompleteUnrolling ==
  copy_using_evaluator("InnerVectorized", "Complete")
Assign_InnerVectorized_InnerUnrolling ==
  copy_using_evaluator("InnerVectorized", "Inner")
Assign_Linear_NoUnrolling == copy_using_evaluator("Linear", "None")
Assign_Linear_CompleteUnrolling == copy_using_evaluator("Linear", "Complete")
Assign_SliceVectorized_NoUnrolling ==
  copy_using_evaluator("SliceVectorized", "None")

NextAssign ==
  \/ Assign_Default_NoUnrolling
  \/ Assign_Default_CompleteUnrolling
  \/ Assign_Default_InnerUnrolling
  \/ Assign_LinearVectorized_NoUnrolling
  \/ Assign_LinearVectorized_CompleteUnrolling
  \/ Assign_InnerVectorized_NoUnrolling
  \/ Assign_InnerVectorized_CompleteUnrolling
  \/ Assign_InnerVectorized_InnerUnrolling
  \/ Assign_Linear_NoUnrolling
  \/ Assign_Linear_CompleteUnrolling
  \/ Assign_SliceVectorized_NoUnrolling

SpecAssign == InitAssign /\ [][NextAssign]_vars

(***************************************************************************)
(* The vectorized executors forced on a pair: the Traversal / Unrolling    *)
(* template arguments of copy_using_evaluator_impl (lines 317 - 320) given *)
(* explicitly instead of taken from the traits.  The pair has the access   *)
(* modes the forced executor uses.                                         *)
(***************************************************************************)
InitForced ==
  /\ pc = "assign"
  /\ traits = Null
  /\ trace = <<>>
  /\ failed = FALSE
  /\ IdleAlgebra
  /\ IdlePool
  /\ IdleParallel
  /\ IdleReverse
  /\ \E rm \in BOOLEAN, inner \in 0 .. MaxInner, outer \in 0 .. MaxOuter,
        sInner \in BOOLEAN, sOuter \in BOOLEAN,
        lin \in BOOLEAN, al \in BOOLEAN,
        pad \in 0 .. MaxPad, base \in 0 .. MaxBase,
        slin \in BOOLEAN, sal \in BOOLEAN :
       /\ NaturalOrder(sInner, inner, sOuter, outer)
       /\ TruthfulDst(lin, al, pad, base)
       /\ Operands(rm, inner, outer, sInner, sOuter, TRUE, lin, TRUE, al, pad,
                   base, rm, TRUE, slin, sal, 1,
                   PhysRows(rm, inner, outer), PhysCols(rm, inner, outer))

Force_InnerVectorized ==
  /\ pc = "assign"
  /\ MightVectorize(dstType, srcType)
  /\ RunImpl("InnerVectorized", "None")

Force_LinearVectorized ==
  /\ pc = "assign"
  /\ MightVectorize(dstType, srcType)
  /\ MayLinearize(dstType, srcType)
  /\ DstHasDirectAccess(dstType)
  /\ RunImpl("LinearVectorized", "None")

Force_SliceVectorized ==
  /\ pc = "assign"
  /\ MightVectorize(dstType, srcType)
  /\ DstHasDirectAccess(dstType)
  /\ RunImpl("SliceVectorized", "None")

NextForced ==
  \/ Force_InnerVectorized
  \/ Force_LinearVectorized
  \/ Force_SliceVectorized

SpecForced == InitForced /\ [][NextForced]_vars

(***************************************************************************)
(* Map.h: the access bits of Map<MatrixType, Options, StrideType>, from    *)
(* those of MatrixType (Flags0), whether Options holds Aligned, the two    *)
(* compile-time strides, whether MatrixType has a dynamic size, and        *)
(* sizeof(Scalar).                                                         *)
(***************************************************************************)
ei_traits_Map(Flags0, IsAligned, InnerStride, OuterStride, IsDynamicSize, sizeofScalar) ==
  LET HasNoInnerStride  == InnerStride <= 1
      HasNoOuterStride  == OuterStride = 0
      HasNoStride       == HasNoInnerStride /\ HasNoOuterStride
      KeepsPacketAccess ==
        /\ HasNoInnerStride
        /\ \/ IsDynamicSize
           \/ HasNoOuterStride
           \/ (OuterStride # Dynamic /\ (OuterStride * sizeofScalar) % 16 = 0)
  IN  [Aligned |-> IsAligned,
       Linear  |-> Flags0.Linear /\ HasNoStride,
       Packet  |-> Flags0.Packet /\ KeepsPacketAccess]

(***************************************************************************)
(* The executors that probe the destination's alignment at run time, on    *)
(* destinations of every base alignment and outer stride: dynamic sizes,   *)
(* a source of the destination's storage order with packet access.         *)
(***************************************************************************)
InitAlignment ==
  /\ pc = "assign"
  /\ traits = Null
  /\ trace = <<>>
  /\ failed = FALSE
  /\ IdleAlgebra
  /\ IdlePool
  /\ IdleParallel
  /\ IdleReverse
  /\ \E rm \in BOOLEAN, inner \in 0 .. MaxSliceInner, outer \in 0 .. MaxSlices,
        al \in BOOLEAN, pad \in 0 .. MaxStridePad, base \in 0 .. MaxBaseAlign,
        sal \in BOOLEAN :
       /\ TruthfulDst(pad = 0, al, pad, base)
       /\ Operands(rm, inner, outer, FALSE, FALSE, TRUE, pad = 0, TRUE, al, pad,
                   base, rm, TRUE, TRUE, sal, 1,
                   PhysRows(rm, inner, outer), PhysCols(rm, inner, outer))

\* copy_using_evaluator_impl<LinearVectorizedTraversal, NoUnrolling>::run
Run_LinearVectorized ==
  /\ pc = "assign"
  /\ MightVectorize(dstType, srcType)
  /\ MayLinearize(dstType, srcType)
  /\ DstHasDirectAccess(dstType)
  /\ RunImpl("LinearVectorized", "None")

\* copy_using_evaluator_impl<SliceVectorizedTraversal, NoUnrolling>::run
Run_SliceVectorized ==
  /\ pc = "assign"
  /\ MightVectorize(dstType, srcType)
  /\ DstHasDirectAccess(dstType)
  /\ RunImpl("SliceVectorized", "None")

NextAlignment ==
  \/ Run_LinearVectorized
  \/ Run_SliceVectorized

SpecAlignment == InitAlignment /\ [][NextAlignment]_vars

(***************************************************************************)
(* Assignments between operands whose shapes may differ.  A Matrix whose   *)
(* dimensions are both Dynamic can be resized; Matrix::operator= resizes   *)
(* it to the source's shape and assigns.  copy_using_evaluator is given    *)
(* the destination as it is.                                               *)
(***************************************************************************)
Resizable(D) == D.Rows = Dynamic /\ D.Cols = Dynamic

\* Matrix::resize(rows, cols) of a resizable matrix: fresh, aligned,
\* contiguous storage of the new shape
resize(D, rows, cols) ==
  DstObject(D.RowMajor, IF D.RowMajor THEN cols ELSE rows,
            IF D.RowMajor THEN rows ELSE cols, 0, 0)

InitShape ==
  /\ pc = "assign"
  /\ traits = Null
  /\ trace = <<>>
  /\ failed = FALSE
  /\ IdleAlgebra
  /\ IdlePool
  /\ IdleParallel
  /\ IdleReverse
  /\ \E rm \in BOOLEAN, inner \in 1 .. MaxDim, outer \in 1 .. MaxDim,
        fixed \in BOOLEAN, srm \in BOOLEAN, spk \in BOOLEAN,
        srows \in 1 .. MaxDim, scols \in 1 .. MaxDim :
       /\ NaturalOrder(fixed, inner, fixed, outer)
       /\ Operands(rm, inner, outer, fixed, fixed, TRUE, TRUE, TRUE, TRUE, 0,
                   0, srm, spk, TRUE, TRUE, 1, srows, scols)

\* Matrix::operator=(const MatrixBase<Scalar, OtherDerived>& other)
Matrix_assign ==
  /\ pc = "assign"
  /\ Resizable(dstType)
  /\ RunImplOn(resize(dstType, src.rows, src.cols),
               Traversal(dstType, srcType), Unrolling(dstType, srcType),
               "assigned")

\* copy_using_evaluator(dst, src) on a destination of fixed shape
copy_using_evaluator_fixed ==
  /\ pc = "assign"
  /\ ~Resizable(dstType)
  /\ RunImplOn(dst, Traversal(dstType, srcType), Unrolling(dstType, srcType),
               "copied")

NextShape ==
  \/ Matrix_assign
  \/ copy_using_evaluator_fixed

SpecShape == InitShape /\ [][NextShape]_vars

(***************************************************************************)
(* Parallelizer.h: ei_run_parallel_1d and ei_run_parallel_2d.  A call has  *)
(* the build flag EIGEN_HAS_OPENMP, the template argument Parallelize, the *)
(* value of omp_get_num_procs() and the sizes of the domain; calls is the  *)
(* sequence of blocks the block function is invoked on, by loop index, and *)
(* par.reads the indices at which the divide tables have been read.        *)
(***************************************************************************)
divide1 == <<0, 1, 2, 3, 2, 5, 3, 7, 4, 3, 5, 11, 4, 13, 7, 5, 4>>
divide2 == <<0, 1, 1, 1, 2, 1, 2, 1, 2, 3, 2, 1, 3, 1, 2, 3, 4>>

\* what a read past the end of a divide table may return
GarbageDivisors == {1, 2}

\* divide[threads]
TableAt(table, threads, garbage) ==
  IF threads + 1 \in DOMAIN table THEN table[threads + 1] ELSE garbage

InitParallel ==
  /\ pc = "call"
  /\ IdleAssign
  /\ failed = FALSE
  /\ IdleAlgebra
  /\ IdlePool
  /\ IdleReverse
  /\ calls = <<>>
  /\ \E omp \in BOOLEAN, parallelize \in BOOLEAN, procs \in 1 .. MaxProcs :
       \/ \E n \in 0 .. MaxSize1 :
            par = [kind |-> "1d", HasOpenMP |-> omp,
                   Parallelize |-> parallelize, procs |-> procs,
                   size1 |-> n, size2 |-> 1, reads |-> <<>>]
       \/ \E n1 \in 0 .. MaxSize2, n2 \in 0 .. MaxSize2 :
            par = [kind |-> "2d", HasOpenMP |-> omp,
                   Parallelize |-> parallelize, procs |-> procs,
                   size1 |-> n1, size2 |-> n2, reads |-> <<>>]

\* the call takes the OpenMP branch
InParallelBranch == par.HasOpenMP /\ par.Parallelize

\* the loop of lines 40 - 46
Blocks1d(n, threads) ==
  LET blockSize == n \div threads
  IN  [i \in 1 .. threads |->
         LET blockStart == (i - 1) * blockSize
             actualBlockSize == Min(blockSize, n - blockStart)
         IN  <<blockStart, actualBlockSize>>]

ei_run_parallel_1d ==
  /\ pc = "call"
  /\ par.kind = "1d"
  /\ IF ~InParallelBranch
     THEN calls' = << <<0, par.size1>> >>
     ELSE calls' = Blocks1d(par.size1, par.procs)
  /\ pc' = "returned"
  /\ UNCHANGED <<dstType, srcType, traits, dst, src, trace, failed, par,
                 revVars, algVars, pool>>

\* the condition of the ei_assert of line 64
Mut_ThreadsSupported(threads) == threads <= MaxThreads + 1

ThreadsSupported(threads) == threads <= MaxThreads

\* the ranges table after the loops of lines 69 - 80, column k at index k+1
Ranges(size1, size2, d1, d2) ==
  LET blockSize1 == size1 \div d1
      blockSize2 == size2 \div d2
  IN  [k \in 1 .. d1 * d2 |->
         LET i1 == (k - 1) \div d2
             i2 == (k - 1) % d2
             blockStart1 == i1 * blockSize1
             actualBlockSize1 == Min(blockSize1, size1 - blockStart1)
             blockStart2 == i2 * blockSize2
             actualBlockSize2 == Min(blockSize2, size2 - blockStart2)
         IN  <<blockStart1, actualBlockSize1, blockStart2, actualBlockSize2>>]

\* the loop of lines 83 - 86; a column that was never filled holds garbage
Blocks2d(size1, size2, threads, d1, d2, garbage) ==
  LET ranges == Ranges(size1, size2, d1, d2)
  IN  [i \in 1 .. threads |->
         IF i <= Len(ranges) THEN ranges[i]
         ELSE <<garbage, garbage, garbage, garbage>>]

ei_run_parallel_2d ==
  /\ pc = "call"
  /\ par.kind = "2d"
  /\ IF ~InParallelBranch
     THEN /\ calls' = << <<0, par.size1, 0, par.size2>> >>
          /\ pc' = "returned"
          /\ UNCHANGED <<failed, par>>
     ELSE LET threads == par.procs
          IN  IF ~ThreadsSupported(threads)
              THEN /\ failed' = TRUE
                   /\ pc' = "aborted"
                   /\ UNCHANGED <<calls, par>>
              ELSE /\ \E g1 \in GarbageDivisors, g2 \in GarbageDivisors :
                        calls' = Blocks2d(par.size1, par.size2, threads,
                                          TableAt(divide1, threads, g1),
                                          TableAt(divide2, threads, g2), g1)
                   /\ par' = [par EXCEPT !.reads = <<threads, threads>>]
                   /\ pc' = "returned"
                   /\ UNCHANGED failed
  /\ UNCHANGED <<dstType, srcType, traits, dst, src, trace, revVars,
                 algVars, pool>>

NextParallel ==
  \/ ei_run_parallel_1d
  \/ ei_run_parallel_2d

SpecParallel == InitParallel /\ [][NextParallel]_vars

(***************************************************************************)
(* Reverse.h: a matrix X and the Reverse expressions wrapped around it,    *)
(* innermost first.  X holds 1, 2, 3 ... in storage order.                 *)
(***************************************************************************)
Directions == {"Vertical", "Horizontal", "BothDirections"}

Mut_ReverseRow(Direction) == Direction = "Vertical"

ReverseRow(Direction) ==
  (Direction = "Vertical") \/ (Direction = "BothDirections")

ReverseCol(Direction) ==
  (Direction = "Horizontal") \/ (Direction = "BothDirections")

\* X.coeff(index) and X.coeff(row, col) of the plain matrix
MatrixCoeffByIndex(x, index) == index + 1

MatrixCoeff(x, row, col) ==
  MatrixCoeffByIndex(x, IF x.rm THEN row * x.cols + col
                                ELSE row + col * x.rows)

\* coeff(row, col) of the expression made of the first k wrappers
RECURSIVE ReverseCoeff(_, _, _, _)
ReverseCoeff(x, k, row, col) ==
  IF k = 0
  THEN MatrixCoeff(x, row, col)
  ELSE ReverseCoeff(x, k - 1,
         IF ReverseRow(x.dirs[k]) THEN x.rows - row - 1 ELSE row,
         IF ReverseCol(x.dirs[k]) THEN x.cols - col - 1 ELSE col)

\* coeff(index) of the expression made of the first k wrappers
RECURSIVE ReverseCoeffByIndex(_, _, _)
ReverseCoeffByIndex(x, k, index) ==
  IF k = 0
  THEN MatrixCoeffByIndex(x, index)
  ELSE ReverseCoeffByIndex(x, k - 1, x.rows * x.cols - index - 1)

\* X.packet(row, col): the packet-width coefficients that follow the address
\* of (row, col) in storage order
MatrixPacket(x, row, col) ==
  [i \in 1 .. PacketSize |->
     MatrixCoeffByIndex(x, (IF x.rm THEN row * x.cols + col
                                    ELSE row + col * x.rows) + i - 1)]

\* X.packet(index)
MatrixPacketByIndex(x, index) ==
  [i \in 1 .. PacketSize |-> MatrixCoeffByIndex(x, index + i - 1)]

\* whether X.packet(row, col) stays inside one inner vector of X
MatrixPacketInBounds(x, row, col) ==
  /\ row >= 0
  /\ col >= 0
  /\ IF x.rm THEN row < x.rows /\ col + PacketSize <= x.cols
             ELSE col < x.cols /\ row + PacketSize <= x.rows

ei_preverse(p) == [i \in 1 .. PacketSize |-> p[PacketSize + 1 - i]]

OffsetRow(x, Direction) ==
  IF ReverseRow(Direction) /\ ~x.rm THEN PacketSize ELSE 1

OffsetCol(x, Direction) ==
  IF ReverseCol(Direction) /\ x.rm THEN PacketSize ELSE 1

Mut_ReversePacket(x, Direction) == Direction = "BothDirections"

ReversePacket(x, Direction) ==
  \/ Direction = "BothDirections"
  \/ (Direction = "Vertical" /\ ~x.rm)
  \/ (Direction = "Horizontal" /\ x.rm)

\* ei_reverse_packet_cond<PacketScalar, ReversePacket>::run(p)
reverse_packet(x, Direction, p) ==
  IF ReversePacket(x, Direction) THEN ei_preverse(p) ELSE p

\* the position that packet(row, col) and writePacket(row, col, .) of a
\* Reverse hand to the nested expression
NestedPacketRow(x, Direction, row) ==
  IF ReverseRow(Direction) THEN x.rows - row - OffsetRow(x, Direction)
  ELSE row

NestedPacketCol(x, Direction, col) ==
  IF ReverseCol(Direction) THEN x.cols - col - OffsetCol(x, Direction)
  ELSE col

\* packet(row, col) of the expression made of the first k wrappers
RECURSIVE packet(_, _, _, _)
packet(x, k, row, col) ==
  IF k = 0
  THEN MatrixPacket(x, row, col)
  ELSE reverse_packet(x, x.dirs[k],
         packet(x, k - 1, NestedPacketRow(x, x.dirs[k], row),
                          NestedPacketCol(x, x.dirs[k], col)))

\* packet(index) of the expression made of the first k wrappers
RECURSIVE packetByIndex(_, _, _)
packetByIndex(x, k, index) ==
  IF k = 0
  THEN MatrixPacketByIndex(x, index)
  ELSE ei_preverse(packetByIndex(x, k - 1,
                                 x.rows * x.cols - index - PacketSize))

\* writePacket(row, col, p) of the expression made of the first k wrappers:
\* the stores it makes into X, as <<index in X, value>> in lane order
RECURSIVE writePacket(_, _, _, _, _)
writePacket(x, k, row, col, p) ==
  IF k = 0
  THEN [i \in 1 .. PacketSize |->
          <<(IF x.rm THEN row * x.cols + col ELSE row + col * x.rows) + i - 1,
            p[i]>>]
  ELSE writePacket(x, k - 1, NestedPacketRow(x, x.dirs[k], row),
                   NestedPacketCol(x, x.dirs[k], col),
                   reverse_packet(x, x.dirs[k], p))

\* writePacket(index, p) of the expression made of the first k wrappers
RECURSIVE writePacketByIndex(_, _, _, _)
writePacketByIndex(x, k, index, p) ==
  IF k = 0
  THEN [i \in 1 .. PacketSize |-> <<index + i - 1, p[i]>>]
  ELSE writePacketByIndex(x, k - 1, x.rows * x.cols - index - PacketSize,
                          ei_preverse(p))

\* whether the packet accesses that packet(row, col) of the first k wrappers
\* makes on every nested expression stay inside an inner vector
RECURSIVE NestedPacketsInBounds(_, _, _, _)
NestedPacketsInBounds(x, k, row, col) ==
  /\ MatrixPacketInBounds(x, row, col)
  /\ k > 0 => NestedPacketsInBounds(x, k - 1,
                                     NestedPacketRow(x, x.dirs[k], row),
                                     NestedPacketCol(x, x.dirs[k], col))

\* the positions at which a packet of the expression fits an inner vector
PacketPositions(x) ==
  {p \in (0 .. x.rows - 1) \X (0 .. x.cols - 1) :
     MatrixPacketInBounds(x, p[1], p[2])}

PacketIndices(x) == 0 .. x.rows * x.cols - PacketSize

\* the packet handed to writePacket: lane i holds the value -i
WrittenPacket == [i \in 1 .. PacketSize |-> 0 - i]

\* every coefficient of the outermost expression, by position and by index,
\* every packet of it, and the stores of every packet write
ReadAll(x) ==
  [byRowCol |-> [p \in (0 .. x.rows - 1) \X (0 .. x.cols - 1) |->
                   ReverseCoeff(x, Len(x.dirs), p[1], p[2])],
   byIndex  |-> [i \in 0 .. x.rows * x.cols - 1 |->
                   ReverseCoeffByIndex(x, Len(x.dirs), i)],
   packets  |-> [p \in PacketPositions(x) |->
                   packet(x, Len(x.dirs), p[1], p[2])],
   packetsByIndex |-> [i \in PacketIndices(x) |->
                   packetByIndex(x, Len(x.dirs), i)],
   inBounds |-> [p \in PacketPositions(x) |->
                   NestedPacketsInBounds(x, Len(x.dirs), p[1], p[2])],
   stores   |-> [p \in PacketPositions(x) |->
                   writePacket(x, Len(x.dirs), p[1], p[2], WrittenPacket)],
   storesByIndex |-> [i \in PacketIndices(x) |->
                   writePacketByIndex(x, Len(x.dirs), i, WrittenPacket)]]

InitReverse ==
  /\ pc = "expr"
  /\ IdleAssign
  /\ failed = FALSE
  /\ IdleAlgebra
  /\ IdlePool
  /\ IdleParallel
  /\ \E rows \in 1 .. MaxRevDim, cols \in 1 .. MaxRevDim, rm \in BOOLEAN :
       rev = [rows |-> rows, cols |-> cols, rm |-> rm, dirs |-> <<>>]
  /\ view = ReadAll(rev)

\* Reverse<MatrixType, Direction>(matrix), then reading it
WrapReverse ==
  /\ pc = "expr"
  /\ Len(rev.dirs) < MaxDepth
  /\ \E Direction \in Directions :
       /\ rev' = [rev EXCEPT !.dirs = Append(@, Direction)]
       /\ view' = ReadAll(rev')
  /\ UNCHANGED <<pc, dstType, srcType, traits, dst, src, trace, failed,
                 parVars, algVars, pool>>

NextReverse == WrapReverse

SpecReverse == InitReverse /\ [][NextReverse]_vars

(***************************************************************************)
(* ei_traits<Reverse<MatrixType, Direction> >: the Flags of the Reverse    *)
(* expressions wrapped around a nested type, as sets of bits.  view[1] is  *)
(* the Flags of the innermost nested type, view[k + 1] those of the k-th   *)
(* wrapper.                                                                *)
(***************************************************************************)
FlagBits ==
  {"RowMajorBit", "EvalBeforeNestingBit", "PacketAccessBit",
   "LinearAccessBit", "AlignedBit", "DirectAccessBit",
   "UpperTriangularBit", "LowerTriangularBit"}

\* the bits an expression hands on to the expressions built from it
HereditaryBits ==
  {"RowMajorBit", "EvalBeforeNestingBit", "EvalBeforeAssigningBit",
   "SparseBit"}

Mut_ReverseLinearAccess(Direction, nestedFlags) ==
  IF "PacketAccessBit" \in nestedFlags THEN {"LinearAccessBit"} ELSE {}

\* ei_traits<Reverse>::LinearAccess
ReverseLinearAccess(Direction, nestedFlags) ==
  IF Direction = "BothDirections" /\ "PacketAccessBit" \in nestedFlags
  THEN {"LinearAccessBit"}
  ELSE {}

\* ei_traits<Reverse>::Flags
ReverseFlags(Direction, nestedFlags) ==
  (nestedFlags \cap (HereditaryBits \cup {"PacketAccessBit"}
                       \cup ReverseLinearAccess(Direction, nestedFlags)))
  \cup (IF "UpperTriangularBit" \in nestedFlags
         THEN {"LowerTriangularBit"} ELSE {})
  \cup (IF "LowerTriangularBit" \in nestedFlags
         THEN {"UpperTriangularBit"} ELSE {})

InitReverseTraits ==
  /\ pc = "type"
  /\ IdleAssign
  /\ failed = FALSE
  /\ IdleAlgebra
  /\ IdlePool
  /\ IdleParallel
  /\ rev = [dirs |-> <<>>]
  /\ \E Flags \in SUBSET FlagBits : view = <<Flags>>

\* instantiating Reverse<MatrixType, Direction> on the outermost type
InstantiateReverse ==
  /\ pc = "type"
  /\ Len(rev.dirs) < MaxDepth
  /\ \E Direction \in Directions :
       /\ rev' = [rev EXCEPT !.dirs = Append(@, Direction)]
       /\ view' = Append(view, ReverseFlags(Direction, view[Len(view)]))
  /\ UNCHANGED <<pc, dstType, srcType, traits, dst, src, trace, failed,
                 parVars, algVars, pool>>

NextReverseTraits == InstantiateReverse

SpecReverseTraits == InitReverseTraits /\ [][NextReverseTraits]_vars

(***************************************************************************)
(* Product.h: the product of an m x n by an n x p matrix of integers,      *)
(* evaluated into a destination by _cacheOptimalEval and read coefficient  *)
(* by coefficient through _coeff.  lhs(i, j) = lhs0 + i * n + j and        *)
(* rhs(j, k) = rhs0 + j * p + k.                                           *)
(***************************************************************************)
\* NumTraits<int>::MulCost and NumTraits<int>::AddCost
MulCost == 1
AddCost == 1

LhsCoeff(x, i, j) == x.lhs0 + i * x.inner + j
RhsCoeff(x, j, k) == x.rhs0 + j * x.cols + k

ProductCells(x) == (0 .. x.rows - 1) \X (0 .. x.cols - 1)

\* ei_traits<Product<Lhs, Rhs, EvalMode> >::CoeffReadCost
ProductCoeffReadCost(x) ==
  IF x.LhsCols = Dynamic
  THEN Dynamic
  ELSE x.LhsCols * (MulCost + x.LhsCoeffReadCost + x.RhsCoeffReadCost)
       + (x.LhsCols - 1) * AddCost

\* ei_product_unroller<Index, Size, Lhs, Rhs>::run(row, col, lhs, rhs, res):
\* the value it leaves in res, which holds res0 before
RECURSIVE ei_product_unroller(_, _, _, _, _, _)
ei_product_unroller(Index, Size, x, row, col, res0) ==
  IF Size = Dynamic \/ Size = 0 THEN res0
  ELSE IF Index = 0 THEN LhsCoeff(x, row, 0) * RhsCoeff(x, 0, col)
  ELSE ei_product_unroller(Index - 1, Size, x, row, col, res0)
       + LhsCoeff(x, row, Index) * RhsCoeff(x, Index, col)

\* the loop of lines 153 - 155, from index i on
RECURSIVE CoeffLoop(_, _, _, _, _)
CoeffLoop(x, row, col, i, res) ==
  IF i < x.inner
  THEN CoeffLoop(x, row, col, i + 1,
                 res + LhsCoeff(x, row, i) * RhsCoeff(x, i, col))
  ELSE res

\* Product::_coeff(row, col); garbage is what the uninitialized res holds
Product_coeff(x, row, col, garbage) ==
  LET unroll == ProductCoeffReadCost(x) <= EIGEN_UNROLLING_LIMIT
  IN  IF unroll
      THEN ei_product_unroller(x.LhsCols - 1, x.LhsCols, x, row, col, garbage)
      ELSE CoeffLoop(x, row, col, 1,
                     LhsCoeff(x, row, 0) * RhsCoeff(x, 0, col))

\* the assignments to res that ei_product_unroller<Index, Size>::run makes,
\* in order, as <<operator, inner index>>
RECURSIVE Mut_UnrollerSteps(_, _)
Mut_UnrollerSteps(Index, Size) ==
  IF Size = Dynamic \/ Size = 0 THEN <<>>
  ELSE IF Index = 0 THEN << <<"=", 0>> >>
  ELSE << <<"=", 0>>, <<"+=", Index>> >>
       \o Tail(Mut_UnrollerSteps(Index - 1, Size))

RECURSIVE UnrollerSteps(_, _)
UnrollerSteps(Index, Size) ==
  IF Size = Dynamic \/ Size = 0 THEN <<>>
  ELSE IF Index = 0 THEN << <<"=", 0>> >>
  ELSE Append(UnrollerSteps(Index - 1, Size), <<"+=", Index>>)

\* the assignments to res of lines 153 - 155, from index i on
RECURSIVE CoeffLoopSteps(_, _, _)
CoeffLoopSteps(x, i, steps) ==
  IF i < x.inner
  THEN CoeffLoopSteps(x, i + 1, Append(steps, <<"+=", i>>))
  ELSE steps

\* the assignments to res that Product::_coeff makes, in order
Product_coeff_steps(x) ==
  IF ProductCoeffReadCost(x) <= EIGEN_UNROLLING_LIMIT
  THEN UnrollerSteps(x.LhsCols - 1, x.LhsCols)
  ELSE CoeffLoopSteps(x, 1, << <<"=", 0>> >>)

\* m_lhs.cols() & 0xfffffffC
Cols4(n) == n - (n % 4)

\* the loop of lines 209 - 218 on cell (i, k), from j on
RECURSIVE BlockLoop(_, _, _, _, _)
BlockLoop(x, i, k, j, res) ==
  IF j < Cols4(x.inner)
  THEN BlockLoop(x, i, k, j + 4,
         res + (RhsCoeff(x, j, k) * LhsCoeff(x, i, j)
                + RhsCoeff(x, j + 1, k) * LhsCoeff(x, i, j + 1)
                + RhsCoeff(x, j + 2, k) * LhsCoeff(x, i, j + 2)
                + RhsCoeff(x, j + 3, k) * LhsCoeff(x, i, j + 3)))
  ELSE res

\* the loop of lines 219 - 224 on cell (i, k), from j on
RECURSIVE TailLoop(_, _, _, _, _)
TailLoop(x, i, k, j, res) ==
  IF j < x.inner
  THEN TailLoop(x, i, k, j + 1, res + RhsCoeff(x, j, k) * LhsCoeff(x, i, j))
  ELSE res

\* res.setZero()
setZero(res) == [c \in DOMAIN res |-> 0]

\* Product::_cacheOptimalEval(res): the destination it leaves
cacheOptimalEval(x, res) ==
  LET zero == setZero(res)
  IN  [c \in DOMAIN res |->
         TailLoop(x, c[1], c[2], Cols4(x.inner),
                  BlockLoop(x, c[1], c[2], 0, zero[c]))]

\* the first coefficients of the factors, their read costs, and what the
\* destination holds before the evaluation
ProdFirstLhs == {1, -2}
ProdFirstRhs == {7, 0}
ProdReadCosts == {1, 3}
ProdOldContents == {0, 5}

InitProduct ==
  /\ pc = "product"
  /\ IdleAssign
  /\ failed = FALSE
  /\ IdleParallel
  /\ IdleReverse
  /\ IdlePool
  /\ hseq = Null
  /\ perm = Null
  /\ probe = Null
  /\ eig = Null
  /\ \E m \in 1 .. MaxProdDim, n \in 1 .. MaxProdInner, p \in 1 .. MaxProdDim,
        lhs0 \in ProdFirstLhs, rhs0 \in ProdFirstRhs, static \in BOOLEAN,
        lcost \in ProdReadCosts, rcost \in ProdReadCosts,
        old \in ProdOldContents :
       prod = [rows |-> m, inner |-> n, cols |-> p,
               lhs0 |-> lhs0, rhs0 |-> rhs0,
               LhsCols |-> StaticOr(static, n),
               LhsCoeffReadCost |-> lcost, RhsCoeffReadCost |-> rcost,
               res |-> [c \in (0 .. m - 1) \X (0 .. p - 1) |-> old],
               evaluated |-> FALSE,
               coeffs |-> [c \in (0 .. m - 1) \X (0 .. p - 1) |-> 0],
               steps |-> <<>>,
               read |-> FALSE]

\* MatrixBase::lazyAssign(const Product<Derived1, Derived2, CacheOptimal>&)
lazyAssign ==
  /\ pc = "product"
  /\ ~prod.evaluated
  /\ prod' = [prod EXCEPT !.res = cacheOptimalEval(prod, prod.res),
                          !.evaluated = TRUE]
  /\ UNCHANGED <<pc, dstType, srcType, traits, dst, src, trace, failed,
                 parVars, revVars, hseq, perm, probe, eig, pool>>

\* reading every coefficient of the product through Product::_coeff
ReadCoeffs ==
  /\ pc = "product"
  /\ ~prod.read
  /\ \E garbage \in GarbageValues :
       prod' = [prod EXCEPT
                  !.coeffs = [c \in DOMAIN prod.coeffs |->
                                Product_coeff(prod, c[1], c[2], garbage)],
                  !.steps = Product_coeff_steps(prod),
                  !.read = TRUE]
  /\ UNCHANGED <<pc, dstType, srcType, traits, dst, src, trace, failed,
                 parVars, revVars, hseq, perm, probe, eig, pool>>

NextProduct ==
  \/ lazyAssign
  \/ ReadCoeffs

SpecProduct == InitProduct /\ [][NextProduct]_vars

(***************************************************************************)
(* HouseholderSequence.h: the expansion, by evalTo, of a sequence of       *)
(* reflections into a destination that is not the sequence's own vector    *)
(* storage (the condition of lines 183 - 184 is false).  Scalars are       *)
(* integers, matrices functions on (row, col), counted from 0.             *)
(***************************************************************************)
Square(n) == (0 .. n - 1) \X (0 .. n - 1)

RECURSIVE SumFn(_, _, _)
SumFn(f, lo, hi) == IF lo > hi THEN 0 ELSE f[lo] + SumFn(f, lo + 1, hi)

\* HouseholderSequence::rows(), for the square m_vectors of the model
HRows(h) == h.n

\* entry i of essentialVector(k): OnTheLeft the part of column k of
\* m_vectors below row k + m_shift, OnTheRight the part of row k right of it
essentialVector(h, k, i) ==
  LET start == k + 1 + h.shift
  IN  IF h.side = "OnTheLeft" THEN h.vectors[<<start + i, k>>]
      ELSE h.vectors[<<k, start + i>>]

\* the Householder vector [1, essential] of reflection k, by corner index
HouseholderVector(h, k, i) == IF i = 0 THEN 1 ELSE essentialVector(h, k, i - 1)

\* corner.applyHouseholderOnTheLeft(essential, tau, workspace), the corner
\* being the rows and columns off .. n-1 of A: corner = (I - tau v v^T) corner
applyHouseholderOnTheLeft(A, n, off, h, k, tau) ==
  [c \in DOMAIN A |->
     IF c[1] >= off /\ c[2] >= off
     THEN A[c] - tau * HouseholderVector(h, k, c[1] - off)
                 * SumFn([r \in off .. n - 1 |->
                            HouseholderVector(h, k, r - off) * A[<<r, c[2]>>]],
                         off, n - 1)
     ELSE A[c]]

\* corner.applyHouseholderOnTheRight(essential, tau, workspace):
\* corner = corner (I - tau v v^T)
applyHouseholderOnTheRight(A, n, off, h, k, tau) ==
  [c \in DOMAIN A |->
     IF c[1] >= off /\ c[2] >= off
     THEN A[c] - tau * HouseholderVector(h, k, c[2] - off)
                 * SumFn([r \in off .. n - 1 |->
                            A[<<c[1], r>>] * HouseholderVector(h, k, r - off)],
                         off, n - 1)
     ELSE A[c]]

\* dst.setIdentity(rows, rows): the destination resized and set to identity
setIdentity(rows) == [c \in Square(rows) |-> IF c[1] = c[2] THEN 1 ELSE 0]

\* the values k takes in for(Index k = vecs-1; k >= 0; --k)
Mut_ReflectionOrder(vecs) == [i \in 1 .. vecs |-> i - 1]

ReflectionOrder(vecs) == [i \in 1 .. vecs |-> vecs - i]

cornerSize(h, k) == HRows(h) - k - h.shift

\* the loop of lines 209 - 218 over the values ks of k
RECURSIVE EvalLoop(_, _, _)
EvalLoop(h, A, ks) ==
  IF ks = <<>> THEN A
  ELSE LET k   == Head(ks)
           off == HRows(h) - cornerSize(h, k)
       IN  EvalLoop(h,
             IF h.trans
             THEN applyHouseholderOnTheRight(A, HRows(h), off, h, k, h.coeffs[k + 1])
             ELSE applyHouseholderOnTheLeft(A, HRows(h), off, h, k, h.coeffs[k + 1]),
             Tail(ks))

\* the matrix evalTo leaves in dst (lines 206 - 219)
evalToResult(h) ==
  EvalLoop(h, setIdentity(HRows(h)), ReflectionOrder(h.length))

\* the vectors and coefficients of the sequences of the model
HVectors(n, v0) == [c \in Square(n) |-> ((v0 + 2 * c[1] + c[2]) % 3) - 1]
HCoeffs(n, t0) == [k \in 1 .. n |-> (t0 + k) % 3]
HFirstEntries == {0, 1}
HFirstCoeffs == {0, 1, 2}
HOldContents == {0, 5}

InitHouseholder ==
  /\ pc = "sequence"
  /\ IdleAssign
  /\ failed = FALSE
  /\ IdleParallel
  /\ IdleReverse
  /\ IdlePool
  /\ prod = Null
  /\ perm = Null
  /\ probe = Null
  /\ eig = Null
  /\ \E n \in 1 .. MaxHDim, side \in {"OnTheLeft", "OnTheRight"},
        trans \in BOOLEAN, shift \in 0 .. 1, v0 \in HFirstEntries,
        t0 \in HFirstCoeffs, d \in 1 .. MaxHDim, old \in HOldContents :
       \E length \in 0 .. n - shift :
          hseq = [n |-> n, side |-> side, trans |-> trans, shift |-> shift,
                  length |-> length, v0 |-> v0, t0 |-> t0,
                  vectors |-> HVectors(n, v0), coeffs |-> HCoeffs(n, t0),
                  dst |-> [c \in Square(d) |-> old],
                  results |-> <<>>]

\* HouseholderSequence::evalTo(dst), dst not the sequence's vector storage
evalTo ==
  /\ pc = "sequence"
  /\ Len(hseq.results) < MaxEvals
  /\ LET Q == evalToResult(hseq)
     IN  hseq' = [hseq EXCEPT !.dst = Q, !.results = Append(@, Q)]
  /\ UNCHANGED <<pc, dstType, srcType, traits, dst, src, trace, failed,
                 parVars, revVars, prod, perm, probe, eig, pool>>

\* the caller sets the destination to the identity between two expansions
ResetToIdentity ==
  /\ pc = "sequence"
  /\ Len(hseq.results) = 1
  /\ hseq.dst # setIdentity(HRows(hseq))
  /\ hseq' = [hseq EXCEPT !.dst = setIdentity(HRows(hseq))]
  /\ UNCHANGED <<pc, dstType, srcType, traits, dst, src, trace, failed,
                 parVars, revVars, prod, perm, probe, eig, pool>>

NextHouseholder ==
  \/ evalTo
  \/ ResetToIdentity

SpecHouseholder == InitHouseholder /\ [][NextHouseholder]_vars

(***************************************************************************)
(* TensorDeviceType.h: ThreadPool, Notification, FunctionWrapper and       *)
(* ThreadPoolDevice::enqueue.  One client thread enqueues the functions    *)
(* 1, 2, ... in this order and then destroys the pool; other threads wait  *)
(* for the Notifications.  A step of a thread is one critical section of   *)
(* mu_, or one step outside it (the call of a function, its return).  mu   *)
(* is the set of the worker threads that hold mu_ between two steps.       *)
(* NoWork is the empty std::function.                                      *)
(***************************************************************************)
NoWork == 0

WorkerIds(p) == 1 .. p.nthreads

\* ThreadPool::ThreadPool(num_threads): every thread at the start of
\* WorkerLoop, nothing scheduled
NewPool(n) ==
  [nthreads |-> n,
   thread    |-> [w \in 1 .. n |->
                    [at |-> "lock", fn |-> NoWork, ready |-> FALSE,
                     signalled |-> FALSE, work |-> NoWork]],
   mu        |-> {},
   waiters   |-> <<>>,
   pending   |-> <<>>,
   exiting   |-> FALSE,
   scheduled |-> 0,
   started   |-> <<>>,
   returned  |-> {},
   notified  |-> {},
   notifyCalls |-> [k \in 1 .. MaxFns |-> 0],
   finished  |-> {},
   client    |-> "scheduling",
   joined    |-> 0,
   waiting   |-> [t \in 1 .. MaxWaiters |-> [at |-> "idle", n |-> NoWork]]]

\* waiters_.back()
Back(s) == s[Len(s)]

\* waiters_.pop_back()
PopBack(s) == SubSeq(s, 1, Len(s) - 1)

\* ThreadPool::Schedule(fn)
ScheduleFn(p, fn) ==
  IF p.waiters = <<>>
  THEN [p EXCEPT !.pending = Append(@, fn)]
  ELSE LET w == Back(p.waiters)
       IN  [p EXCEPT !.waiters = PopBack(@),
                     !.thread[w].ready = TRUE,
                     !.thread[w].work = fn,
                     !.thread[w].signalled = TRUE]

\* one pass of the worker w through the head of while (!exiting_), mu_ held:
\* leave the loop and the function, which releases mu_; queue up as a waiter
\* in w.cv.wait, which releases mu_; or take the front of pending_ and, if
\* that empties it, notify empty_, on which the destructor may be blocked
LoopHead(p, w) ==
  IF p.exiting THEN [p EXCEPT !.thread[w].at = "exited", !.mu = {}]
  ELSE IF p.pending = <<>>
  THEN [p EXCEPT !.thread[w].at = "waiting",
                 !.thread[w].ready = FALSE,
                 !.thread[w].signalled = FALSE,
                 !.waiters = Append(@, w),
                 !.mu = {}]
  ELSE [p EXCEPT !.thread[w].at = "picked",
                 !.thread[w].fn = Head(p.pending),
                 !.pending = Tail(@),
                 !.client = IF Tail(p.pending) = <<>> /\ @ = "draining"
                            THEN "woken" ELSE @,
                 !.mu = {w}]

\* an unlock that leaves mu_ with the thread
Mut_unlock(p, w) == p

\* mu_.unlock() of line 132
unlock(p, w) == [p EXCEPT !.mu = @ \ {w}]

\* the predicate of empty_.wait in ~ThreadPool
Mut_PendingEmpty(p) == TRUE

PendingEmpty(p) == p.pending = <<>>

\* a destructor that sets exiting_ and leaves the waiters asleep
Mut_WakeupAllWaiters(p) ==
  [p EXCEPT !.exiting = TRUE,
            !.client = IF p.nthreads = 0 THEN "destroyed" ELSE "joining"]

\* the first block of ~ThreadPool, once the wait is over; with no thread to
\* join the destructor returns
WakeupAllWaiters(p) ==
  [p EXCEPT !.exiting = TRUE,
            !.thread = [w \in WorkerIds(p) |->
                          IF \E i \in 1 .. Len(p.waiters) : p.waiters[i] = w
                          THEN [@[w] EXCEPT !.ready = TRUE, !.work = NoWork,
                                            !.signalled = TRUE]
                          ELSE @[w]],
            !.client = IF p.nthreads = 0 THEN "destroyed" ELSE "joining"]

\* ~ThreadPool with mu_ held and the predicate of empty_.wait tested: the
\* destructor goes on, or blocks on empty_
DrainOrWait(p) ==
  IF PendingEmpty(p) THEN WakeupAllWaiters(p)
  ELSE [p EXCEPT !.client = "draining"]

\* the predicate of cv_.wait in Notification::WaitForNotification
Mut_WaitPredicate(p, n) == TRUE

WaitPredicate(p, n) == n \in p.notified

InitPool ==
  /\ pc = "pool"
  /\ IdleAssign
  /\ failed = FALSE
  /\ IdleParallel
  /\ IdleReverse
  /\ IdleAlgebra
  /\ \E n \in 1 .. MaxWorkers : pool = NewPool(n)

InitNotification ==
  /\ pc = "pool"
  /\ IdleAssign
  /\ failed = FALSE
  /\ IdleParallel
  /\ IdleReverse
  /\ IdleAlgebra
  /\ \E n \in 1 .. MaxNotifyThreads : pool = NewPool(n)

PoolRuns == pc = "pool" /\ ~failed

PoolFrame == UNCHANGED <<pc, dstType, srcType, traits, dst, src, trace, parVars, revVars, algVars>>

\* ThreadPoolDevice::enqueue(f, args): a new Notification, then Schedule of
\* FunctionWrapper::run bound to it; the function and its Notification share
\* the number of the call
enqueue ==
  /\ PoolRuns
  /\ pool.client = "scheduling"
  /\ pool.mu = {}
  /\ pool.scheduled < MaxFns
  /\ pool' = ScheduleFn([pool EXCEPT !.scheduled = @ + 1], pool.scheduled + 1)
  /\ UNCHANGED failed
  /\ PoolFrame

\* WorkerLoop: the thread takes mu_, at its start or after fn(), and goes
\* through the head of the loop
WorkerLoop(w) ==
  /\ PoolRuns
  /\ pool.thread[w].at = "lock"
  /\ pool.mu = {}
  /\ pool' = LoopHead(pool, w)
  /\ UNCHANGED failed
  /\ PoolFrame

\* WorkerLoop: w.cv.wait returns, w.ready being set; with work the thread
\* goes on to call it, without work it goes through the head of the loop
WorkerWakes(w) ==
  /\ PoolRuns
  /\ pool.thread[w].at = "waiting"
  /\ pool.thread[w].signalled
  /\ pool.thread[w].ready
  /\ pool.mu = {}
  /\ LET fn == pool.thread[w].work
         p  == [pool EXCEPT !.thread[w].work = NoWork]
     IN  pool' = IF fn # NoWork
                 THEN [p EXCEPT !.thread[w].at = "picked", !.thread[w].fn = fn,
                                !.mu = {w}]
                 ELSE LoopHead(p, w)
  /\ UNCHANGED failed
  /\ PoolFrame

\* WorkerLoop: fn being set, mu_.unlock()
WorkerUnlocks(w) ==
  /\ PoolRuns
  /\ pool.thread[w].at = "picked"
  /\ pool' = unlock([pool EXCEPT !.thread[w].at = "unlocked"], w)
  /\ UNCHANGED failed
  /\ PoolFrame

\* WorkerLoop: fn() begins: FunctionWrapper::run calls f(args)
CallFn(w) ==
  /\ PoolRuns
  /\ pool.thread[w].at = "unlocked"
  /\ pool' = [pool EXCEPT !.thread[w].at = "running",
                          !.started = Append(@, pool.thread[w].fn)]
  /\ UNCHANGED failed
  /\ PoolFrame

\* FunctionWrapper::run: f(args) returns
FnReturns(w) ==
  /\ PoolRuns
  /\ pool.thread[w].at = "running"
  /\ pool' = [pool EXCEPT !.thread[w].at = "notify",
                          !.returned = @ \cup {pool.thread[w].fn}]
  /\ UNCHANGED failed
  /\ PoolFrame

\* FunctionWrapper::run: n->Notify(), after which fn() is over and the
\* thread goes for mu_
RunNotifies(w) ==
  /\ PoolRuns
  /\ pool.thread[w].at = "notify"
  /\ LET n == pool.thread[w].fn
     IN  /\ failed' = (n \in pool.notified)
         /\ pool' = [pool EXCEPT !.thread[w].at = "lock",
                                 !.thread[w].fn = NoWork,
                                 !.notified = @ \cup {n},
                                 !.notifyCalls[n] = @ + 1,
                                 !.finished = @ \cup {n}]
  /\ PoolFrame

\* Notification::Notify called on a Notification by a second caller: the
\* eigen_assert(!notified_) fails
SecondNotify(n) ==
  /\ PoolRuns
  /\ n \in pool.notified
  /\ failed' = TRUE
  /\ pool' = [pool EXCEPT !.notifyCalls[n] = @ + 1]
  /\ PoolFrame

\* wait_until_ready(n) of a waiting thread: WaitForNotification is entered;
\* the threads being alike, they are numbered in the order of their calls
WaitForNotification(t, n) ==
  /\ PoolRuns
  /\ pool.waiting[t].at = "idle"
  /\ \A u \in 1 .. t - 1 : pool.waiting[u].at # "idle"
  /\ n \in 1 .. pool.scheduled
  /\ pool' = [pool EXCEPT !.waiting[t] = [at |-> "waiting", n |-> n]]
  /\ UNCHANGED failed
  /\ PoolFrame

\* WaitForNotification: cv_.wait returns, its predicate being true
WaitReturns(t) ==
  /\ PoolRuns
  /\ pool.waiting[t].at = "waiting"
  /\ WaitPredicate(pool, pool.waiting[t].n)
  /\ pool' = [pool EXCEPT !.waiting[t].at = "returned"]
  /\ UNCHANGED failed
  /\ PoolFrame

\* ~ThreadPool is entered: with pending_ empty exiting_ is set and the
\* waiters woken, otherwise the thread blocks in empty_.wait
DestroyPool ==
  /\ PoolRuns
  /\ pool.client = "scheduling"
  /\ pool.mu = {}
  /\ pool' = DrainOrWait(pool)
  /\ UNCHANGED failed
  /\ PoolFrame

\* ~ThreadPool: empty_ has been notified, the thread takes mu_ again and
\* tests the predicate
DestructorWakes ==
  /\ PoolRuns
  /\ pool.client = "woken"
  /\ pool.mu = {}
  /\ pool' = DrainOrWait(pool)
  /\ UNCHANGED failed
  /\ PoolFrame

\* ~ThreadPool: t->join() of the next thread returns; after the last one
\* the destructor returns
JoinThread ==
  /\ PoolRuns
  /\ pool.client = "joining"
  /\ pool.thread[pool.joined + 1].at = "exited"
  /\ pool' = [pool EXCEPT !.joined = @ + 1,
                          !.client = IF pool.joined + 1 = pool.nthreads
                                     THEN "destroyed" ELSE @]
  /\ UNCHANGED failed
  /\ PoolFrame

\* the pool, its client and its destruction
NextPool ==
  \/ enqueue
  \/ \E w \in WorkerIds(pool) : WorkerLoop(w)
  \/ \E w \in WorkerIds(pool) : WorkerWakes(w)
  \/ \E w \in WorkerIds(pool) : WorkerUnlocks(w)
  \/ \E w \in WorkerIds(pool) : CallFn(w)
  \/ \E w \in WorkerIds(pool) : FnReturns(w)
  \/ \E w \in WorkerIds(pool) : RunNotifies(w)
  \/ DestroyPool
  \/ DestructorWakes
  \/ JoinThread

SpecPool == InitPool /\ [][NextPool]_vars

\* a running function calls ThreadPool::Schedule with the next function.
\* After ~ThreadPool has woken the waiters, waiters_ still lists them; the
\* Waiter of a thread that has left WorkerLoop is gone, and Schedule's
\* writes through waiters_.back() are undefined: the function is lost, or
\* the program fails
FnSchedules(w) ==
  /\ PoolRuns
  /\ pool.thread[w].at = "running"
  /\ pool.mu = {}
  /\ pool.scheduled < MaxFns
  /\ LET p == [pool EXCEPT !.scheduled = @ + 1]
     IN  IF p.waiters # <<>> /\ p.thread[Back(p.waiters)].at = "exited"
         THEN \/ pool' = [p EXCEPT !.waiters = PopBack(@)] /\ UNCHANGED failed
              \/ pool' = p /\ failed' = TRUE
         ELSE pool' = ScheduleFn(p, pool.scheduled + 1) /\ UNCHANGED failed
  /\ PoolFrame

\* the pool with functions that schedule functions
NextPoolNested ==
  \/ NextPool
  \/ \E w \in WorkerIds(pool) : FnSchedules(w)

SpecPoolNested == InitPool /\ [][NextPoolNested]_vars

\* ThreadPool(num_threads) for every num_threads the constructor accepts,
\* 0 included
InitPoolOfAnySize ==
  /\ pc = "pool"
  /\ IdleAssign
  /\ failed = FALSE
  /\ IdleParallel
  /\ IdleReverse
  /\ IdleAlgebra
  /\ \E n \in 0 .. MaxWorkers : pool = NewPool(n)

\* one step of the worker thread w, wherever it stands
WorkerStep(w) ==
  /\ w \in WorkerIds(pool)
  /\ \/ WorkerLoop(w)
     \/ WorkerWakes(w)
     \/ WorkerUnlocks(w)
     \/ CallFn(w)
     \/ FnReturns(w)
     \/ RunNotifies(w)

\* one step of the thread that has entered ~ThreadPool
DestructorStep ==
  \/ DestructorWakes
  \/ JoinThread

\* every thread that can run does run: a worker that can take mu_, return
\* from w.cv.wait, call or finish its function takes the step, every
\* function returns, and the destroying thread goes on when empty_ has been
\* notified or the thread it joins has finished
SpecPoolFair ==
  /\ InitPoolOfAnySize
  /\ [][NextPool]_vars
  /\ \A w \in 1 .. MaxWorkers : WF_vars(WorkerStep(w))
  /\ WF_vars(DestructorStep)

\* the pool, its client and the threads that wait for the Notifications
NextNotification ==
  \/ enqueue
  \/ \E w \in WorkerIds(pool) : WorkerLoop(w)
  \/ \E w \in WorkerIds(pool) : WorkerWakes(w)
  \/ \E w \in WorkerIds(pool) : WorkerUnlocks(w)
  \/ \E w \in WorkerIds(pool) : CallFn(w)
  \/ \E w \in WorkerIds(pool) : FnReturns(w)
  \/ \E w \in WorkerIds(pool) : RunNotifies(w)
  \/ \E n \in 1 .. MaxFns : SecondNotify(n)
  \/ \E t \in 1 .. MaxWaiters, n \in 1 .. MaxFns : WaitForNotification(t, n)
  \/ \E t \in 1 .. MaxWaiters : WaitReturns(t)

\* a thread blocked in cv_.wait whose predicate has become true is woken by
\* notify_all and runs again
SpecNotification ==
  /\ InitNotification
  /\ [][NextNotification]_vars
  /\ \A t \in 1 .. MaxWaiters : WF_vars(WaitReturns(t))

(***************************************************************************)
(* PermutationMatrix.h: a permutation is its m_indices, a vector of the    *)
(* integers 0 .. n-1 where the permutation sends i to m_indices[i].        *)
(***************************************************************************)
Indices(n) == 0 .. n - 1

\* the index vectors that describe a permutation (lines 94 - 100)
IndexPermutations(n) ==
  {f \in [Indices(n) -> Indices(n)] : \A j \in Indices(n) : \E i \in Indices(n) : f[i] = j}

\* the loop of PermutationMatrix(Product_t, lhs, rhs)
Mut_ProductIndices(lhs, rhs, n) == [i \in Indices(n) |-> rhs[lhs[i]]]

ProductIndices(lhs, rhs, n) == [i \in Indices(n) |-> lhs[rhs[i]]]

\* the loop of PermutationMatrix(Inverse_t, other) from i on, m being the
\* indices built so far
RECURSIVE InverseLoop(_, _, _, _)
InverseLoop(m, other, i, n) ==
  IF i >= n THEN m
  ELSE InverseLoop([m EXCEPT ![other[i]] = i], other, i + 1, n)

\* PermutationMatrix(Inverse_t, other): m_indices(size) is not initialised
InverseIndices(other, n, garbage) ==
  InverseLoop([j \in Indices(n) |-> garbage], other, 0, n)

\* the loop of PermutationMatrix::evalTo from column i on
RECURSIVE DenseLoop(_, _, _, _)
DenseLoop(other, indices, i, n) ==
  IF i >= n THEN other
  ELSE DenseLoop([other EXCEPT ![<<indices[i], i>>] = 1], indices, i + 1, n)

\* PermutationMatrix::evalTo(other): other.setZero(), then the loop
PermEvalTo(indices, n) ==
  DenseLoop([c \in Square(n) |-> 0], indices, 0, n)

PermOperands == {"sigma", "tau", "product"}

InitPermutation ==
  /\ pc = "permutation"
  /\ IdleAssign
  /\ failed = FALSE
  /\ IdleParallel
  /\ IdleReverse
  /\ IdlePool
  /\ prod = Null
  /\ hseq = Null
  /\ probe = Null
  /\ eig = Null
  /\ \E n \in 1 .. MaxPermSize :
       \E s \in IndexPermutations(n), t \in IndexPermutations(n) :
          perm = [n |-> n, sigma |-> s, tau |-> t,
                  product |-> s, inverse |-> s, timesInverse |-> s,
                  dense |-> [o \in PermOperands |-> [c \in Square(n) |-> 0]],
                  done |-> {}, denseDone |-> {}]

PermFrame == UNCHANGED <<pc, dstType, srcType, traits, dst, src, trace, failed, parVars, revVars, prod, hseq, probe, eig, pool>>

\* sigma * tau: PermutationMatrix::operator*
Multiply ==
  /\ pc = "permutation"
  /\ "product" \notin perm.done
  /\ perm' = [perm EXCEPT !.product = ProductIndices(perm.sigma, perm.tau, perm.n),
                          !.done = @ \cup {"product"}]
  /\ PermFrame

\* sigma.inverse()
Invert ==
  /\ pc = "permutation"
  /\ "inverse" \notin perm.done
  /\ \E garbage \in GarbageValues :
       perm' = [perm EXCEPT !.inverse = InverseIndices(perm.sigma, perm.n, garbage),
                            !.done = @ \cup {"inverse"}]
  /\ PermFrame

\* sigma * sigma.inverse()
MultiplyByInverse ==
  /\ pc = "permutation"
  /\ "inverse" \in perm.done
  /\ "timesInverse" \notin perm.done
  /\ perm' = [perm EXCEPT !.timesInverse = ProductIndices(perm.sigma, perm.inverse, perm.n),
                          !.done = @ \cup {"timesInverse"}]
  /\ PermFrame

\* the indices of the permutation named o
IndicesOf(p, o) ==
  IF o = "sigma" THEN p.sigma ELSE IF o = "tau" THEN p.tau ELSE p.product

\* the dense matrix of sigma, tau or sigma * tau: toDenseMatrix, by evalTo
toDenseMatrix(o) ==
  /\ pc = "permutation"
  /\ o \notin perm.denseDone
  /\ o = "product" => "product" \in perm.done
  /\ perm' = [perm EXCEPT !.dense[o] = PermEvalTo(IndicesOf(perm, o), perm.n),
                          !.denseDone = @ \cup {o}]
  /\ PermFrame

NextPermutation ==
  \/ Multiply
  \/ Invert
  \/ MultiplyByInverse
  \/ \E o \in PermOperands : toDenseMatrix(o)

SpecPermutation == InitPermutation /\ [][NextPermutation]_vars

(***************************************************************************)
(* Memory.h: the alignment probe as the template it is, for a scalar type  *)
(* T of T.sizeof bytes whose packets hold T.size scalars, and a pointer    *)
(* that is an address in bytes.  The packet sizes being powers of two,     *)
(* x & PacketAlignedMask is x modulo the packet size.                      *)
(***************************************************************************)
\* sizeof(Scalar) and ei_packet_traits<Scalar>::size of float, double and
\* of a scalar type without packets
ScalarTypes ==
  { [sizeof |-> 4, size |-> 4], [sizeof |-> 8, size |-> 2], [sizeof |-> 2, size |-> 1] }

\* the offset of the element within its packet, not what is left to the next
Mut_ei_alignmentOffset_Scalar(T, ptr, maxOffset) ==
  IF T.size > 1
  THEN Min((ptr \div T.sizeof) % T.size, maxOffset)
  ELSE 0

ei_alignmentOffset_Scalar(T, ptr, maxOffset) ==
  IF T.size > 1
  THEN Min((T.size - ((ptr \div T.sizeof) % T.size)) % T.size, maxOffset)
  ELSE 0

InitProbe ==
  /\ pc = "probe"
  /\ IdleAssign
  /\ failed = FALSE
  /\ IdleParallel
  /\ IdleReverse
  /\ IdlePool
  /\ prod = Null
  /\ hseq = Null
  /\ perm = Null
  /\ eig = Null
  /\ \E T \in ScalarTypes, ptr \in 0 .. MaxAddress, maxOffset \in 0 .. MaxProbe :
       probe = [T |-> T, ptr |-> ptr, maxOffset |-> maxOffset,
                returned |-> FALSE, result |-> 0]

\* ei_alignmentOffset(ptr, maxOffset)
Probe ==
  /\ pc = "probe"
  /\ ~probe.returned
  /\ probe' = [probe EXCEPT
                 !.returned = TRUE,
                 !.result = ei_alignmentOffset_Scalar(probe.T, probe.ptr, probe.maxOffset)]
  /\ UNCHANGED <<pc, dstType, srcType, traits, dst, src, trace, failed,
                 parVars, revVars, prod, hseq, perm, eig, pool>>

NextProbe == Probe

SpecProbe == InitProbe /\ [][NextProbe]_vars

(***************************************************************************)
(* SelfAdjointEigenSolver.h: the end of compute.  The QR iteration has     *)
(* left the eigenvalues in m_eivalues and the eigenvector of m_eivalues[j] *)
(* in column j of m_eivec; a column is named by the position it had then.  *)
(* Positions count from 0, sequences from 1.                               *)
(***************************************************************************)
EigenValues == 0 .. MaxEigenValue

\* v.block(start, size).minCoeff(&k): the index k, within the block, of the
\* first coefficient that no other coefficient of the block is less than
minCoeff(v, start, blockSize) ==
  CHOOSE k \in 0 .. blockSize - 1 :
    /\ \A j \in 0 .. blockSize - 1 : v[start + k + 1] <= v[start + j + 1]
    /\ \A j \in 0 .. k - 1 : v[start + j + 1] # v[start + k + 1]

\* std::swap(v[a], v[b])
Swap(v, a, b) == [v EXCEPT ![a + 1] = v[b + 1], ![b + 1] = v[a + 1]]

Mut_SwapEigenpair(e, a, b) ==
  [e EXCEPT !.m_eivalues = Swap(@, a, b)]

\* lines 159 - 160
SwapEigenpair(e, a, b) ==
  [e EXCEPT !.m_eivalues = Swap(@, a, b), !.m_eivec = Swap(@, a, b)]

\* the loop of lines 153 - 162, from i on
RECURSIVE SortLoop(_, _)
SortLoop(e, i) ==
  IF i < e.n - 1
  THEN LET k == minCoeff(e.m_eivalues, i, e.n - i)
       IN  SortLoop(IF k > 0 THEN SwapEigenpair(e, i, k + i) ELSE e, i + 1)
  ELSE e

InitEigen ==
  /\ pc = "eigen"
  /\ IdleAssign
  /\ failed = FALSE
  /\ IdleParallel
  /\ IdleReverse
  /\ IdlePool
  /\ prod = Null
  /\ hseq = Null
  /\ perm = Null
  /\ probe = Null
  /\ \E n \in 1 .. MaxEigenSize :
       \E values \in [1 .. n -> EigenValues] :
         eig = [n |-> n, unsorted |-> values, m_eivalues |-> values,
                m_eivec |-> [j \in 1 .. n |-> j - 1], sorted |-> FALSE]

\* SelfAdjointEigenSolver::compute, from line 150 on
compute ==
  /\ pc = "eigen"
  /\ ~eig.sorted
  /\ eig' = [SortLoop(eig, 0) EXCEPT !.sorted = TRUE]
  /\ UNCHANGED <<pc, dstType, srcType, traits, dst, src, trace, failed,
                 parVars, revVars, prod, hseq, perm, probe, pool>>

NextEigen == compute

SpecEigen == InitEigen /\ [][NextEigen]_vars

(***************************************************************************)
(* The classifier as the specification words it (steps 1 - 12).            *)
(***************************************************************************)
storage_orders_agree(D, S) == D.RowMajor = S.RowMajor

might_vectorize(D, S) == storage_orders_agree(D, S) /\ D.Packet /\ S.Packet

may_inner_vectorize(D, S) ==
  /\ might_vectorize(D, S)
  /\ InnerSize(D) # Dynamic
  /\ \E k \in 0 .. MaxStaticInner * (MaxStaticOuter + 1) :
        InnerSize(D) = k * PacketSize
  /\ D.Aligned /\ S.Aligned

may_linearize(D, S) == storage_orders_agree(D, S) /\ D.Linear /\ S.Linear

may_linear_vectorize(D, S) ==
  /\ might_vectorize(D, S)
  /\ may_linearize(D, S)
  /\ D.Direct
  /\ (D.Aligned \/ SizeAtCompileTime(D) = Dynamic)

may_slice_vectorize(D, S) ==
  /\ might_vectorize(D, S)
  /\ D.Direct
  /\ (InnerMaxSize(D) = Dynamic \/ InnerMaxSize(D) >= 3 * PacketSize)

\* the priority list of step 7, each entry with its applicability predicate
PriorityList(D, S) ==
  << <<"InnerVectorized",  may_inner_vectorize(D, S)>>,
     <<"LinearVectorized", may_linear_vectorize(D, S)>>,
     <<"SliceVectorized",  may_slice_vectorize(D, S)>>,
     <<"Linear",           may_linearize(D, S)>>,
     <<"Default",          TRUE>> >>

FirstApplicable(list) ==
  LET i == CHOOSE j \in 1 .. Len(list) :
             /\ list[j][2]
             /\ \A h \in 1 .. (j - 1) : ~list[h][2]
  IN  list[i][1]

vectorized_flag(t) ==
  t \in {"InnerVectorized", "LinearVectorized", "SliceVectorized"}

unrolling_limit(t) ==
  EIGEN_UNROLLING_LIMIT * (IF vectorized_flag(t) THEN PacketSize ELSE 1)

may_unroll_completely(D, S, t) ==
  /\ SizeAtCompileTime(D) # Dynamic
  /\ S.Cost # Dynamic
  /\ SizeAtCompileTime(D) * S.Cost <= unrolling_limit(t)

may_unroll_inner(D, S, t) ==
  /\ InnerSize(D) # Dynamic
  /\ S.Cost # Dynamic
  /\ InnerSize(D) * S.Cost <= unrolling_limit(t)

unrolling_rule(D, S, t) ==
  CASE t \in {"Default", "InnerVectorized"} ->
         IF may_unroll_completely(D, S, t) THEN "Complete"
         ELSE IF may_unroll_inner(D, S, t) THEN "Inner"
         ELSE "None"
    [] t = "LinearVectorized" ->
         IF may_unroll_completely(D, S, t) /\ D.Aligned THEN "Complete"
         ELSE "None"
    [] t = "Linear" ->
         IF may_unroll_completely(D, S, t) THEN "Complete" ELSE "None"
    [] t = "SliceVectorized" -> "None"

(***************************************************************************)
(* C1: for every descriptor pair the classifier's Traversal is the first   *)
(* applicable entry of the priority list InnerVectorized, LinearVectorized,*)
(* SliceVectorized, Linear, Default; InnerVectorized is selected only when *)
(* the inner size is static, a multiple of the packet width, and both      *)
(* operands are statically aligned.                                        *)
(***************************************************************************)
C1_TraversalIsFirstApplicable ==
  pc = "classified" =>
    /\ traits.Traversal = FirstApplicable(PriorityList(dstType, srcType))
    /\ traits.Traversal = "InnerVectorized" =>
         /\ InnerSize(dstType) # Dynamic
         /\ InnerSize(dstType) % PacketSize = 0
         /\ dstType.Aligned /\ srcType.Aligned

\* InnerVectorized is chosen although LinearVectorized applies as well
C1_Witness ==
  /\ pc = "classified"
  /\ traits.Traversal = "InnerVectorized"
  /\ may_linear_vectorize(dstType, srcType)
  /\ may_slice_vectorize(dstType, srcType)

(***************************************************************************)
(* C2: for every descriptor pair the classifier's Unrolling follows the    *)
(* per-traversal rule: Default / InnerVectorized -> Complete, else Inner,  *)
(* else None; LinearVectorized -> Complete only if the destination is      *)
(* aligned, else None; Linear -> Complete or None; SliceVectorized -> None.*)
(***************************************************************************)
C2_UnrollingFollowsRule ==
  pc = "classified" =>
    traits.Unrolling = unrolling_rule(dstType, srcType, traits.Traversal)

\* a Linear traversal whose inner dimension alone could be unrolled gets None
C2_Witness ==
  /\ pc = "classified"
  /\ traits.Traversal = "Linear"
  /\ ~may_unroll_completely(dstType, srcType, "Linear")
  /\ may_unroll_inner(dstType, srcType, "Linear")
  /\ traits.Unrolling = "None"

(***************************************************************************)
(* What an assignment is required to leave behind.                         *)
(***************************************************************************)
\* the destination memory before the assignment
Blank == [off \in DOMAIN dst.data |-> 0]

\* the destination memory the DefaultTraversal / NoUnrolling executor leaves
DefaultResult ==
  Store(Blank, srcType, src, Moves(impl_Default_NoUnrolling(Assignment)), 0)

DstHoldsSrc ==
  \A p \in Positions(dst) :
     dst.data[Offset(dstType, dst, p[1], p[2])] = CoeffValue(p[1], p[2])

\* the (row, col) of the k-th position in outer-then-inner order
KthPosition(k) ==
  LET n == innerSize(dstType, dst)
      o == (k - 1) \div n
      i == (k - 1) % n
  IN  IF dstType.Rows = 1 THEN <<0, i>>
      ELSE IF dstType.Cols = 1 THEN <<i, 0>>
      ELSE IF dstType.RowMajor THEN <<o, i>>
      ELSE <<i, o>>

Count(seq, x) == Cardinality({k \in 1 .. Len(seq) : seq[k] = x})

DstOffsets(moves) == [k \in 1 .. Len(moves) |-> moves[k][1]]
SrcOffsets(moves) == [k \in 1 .. Len(moves) |-> moves[k][2]]

ExactlyOnceInOrder(moves) ==
  /\ \A k \in 1 .. Len(trace) : trace[k][1] # "runaway"
  /\ Len(moves) = size(dst)
  /\ \A p \in Positions(dst) :
       /\ Count(DstOffsets(moves), Offset(dstType, dst, p[1], p[2])) = 1
       /\ Count(SrcOffsets(moves), Offset(srcType, src, p[1], p[2])) = 1
  /\ \A k \in 1 .. Len(moves) :
       /\ PositionAt(dstType, dst, moves[k][1]) = KthPosition(k)
       /\ PositionAt(srcType, src, moves[k][2]) = KthPosition(k)
       /\ KthPosition(k) \in Positions(dst)

C4_EachPositionOnceInOrder ==
  pc = "done" => ExactlyOnceInOrder(Moves(trace))

\* a row-major matrix copied by packets: two rows, one packet each
C4_Witness ==
  /\ pc = "done"
  /\ traits.Traversal = "InnerVectorized"
  /\ dstType.RowMajor
  /\ dst.rows = 2 /\ dst.cols = PacketSize
  /\ Len(trace) = 2
  /\ ExactlyOnceInOrder(Moves(trace))

(***************************************************************************)
(* Boundary sizes of vectorization.                                        *)
(***************************************************************************)
BoundarySizes ==
  {0, 1, PacketSize - 1, PacketSize, PacketSize + 1, 2 * PacketSize}

\* every scalar moved lies inside both operands
NoAccessOutside(moves) ==
  \A k \in 1 .. Len(moves) :
     /\ PositionAt(dstType, dst, moves[k][1]) # <<-1, -1>>
     /\ PositionAt(srcType, src, moves[k][2]) # <<-1, -1>>

\* a vector (one slice) of a boundary size has been copied by a forced
\* vectorized executor
ForcedOnBoundarySize ==
  /\ pc = "done"
  /\ traits.Traversal \in
       {"InnerVectorized", "LinearVectorized", "SliceVectorized"}
  /\ outerSize(dstType, dst) = 1
  /\ size(dst) \in BoundarySizes

\* every packet transfer of the run is at packet-aligned addresses
PacketsAligned ==
  \A k \in 1 .. Len(trace) :
     trace[k][1] = "packet" =>
       /\ (dst.base + trace[k][2]) % PacketSize = 0
       /\ (src.base + trace[k][3]) % PacketSize = 0

MatchesDefaultInBounds ==
  /\ dst.data = DefaultResult
  /\ DstHoldsSrc
  /\ NoAccessOutside(Moves(trace))

(***************************************************************************)
(* C5 as stated: for destination sizes 0, 1, P-1, P, P+1 and 2P each of    *)
(* the InnerVectorized, LinearVectorized and SliceVectorized executors,    *)
(* forced on the pair, leaves the destination identical to the Default     *)
(* executor's and makes no access outside the destination's bounds.        *)
(***************************************************************************)
C5_Original_ForcedMatchesDefault ==
  ForcedOnBoundarySize => MatchesDefaultInBounds

(***************************************************************************)
(* C5 amended: the same for the LinearVectorized and SliceVectorized       *)
(* executors on all six sizes, and for the InnerVectorized executor on the *)
(* sizes its precondition admits: a multiple of the packet width (0, P,    *)
(* 2P) with packet-aligned operands.                                       *)
(***************************************************************************)
C5_ForcedMatchesDefault ==
  ForcedOnBoundarySize =>
    ((traits.Traversal = "InnerVectorized" =>
        (size(dst) % PacketSize = 0 /\ PacketsAligned))
       => MatchesDefaultInBounds)

\* a linear-vectorized copy of P+1 scalars from an unaligned start
C5_Witness ==
  /\ ForcedOnBoundarySize
  /\ traits.Traversal = "LinearVectorized"
  /\ size(dst) = PacketSize + 1
  /\ dst.base % PacketSize # 0
  /\ MatchesDefaultInBounds

SameShape == dst.rows = src.rows /\ dst.cols = src.cols

(***************************************************************************)
(* C6 as stated: an assignment through Matrix::operator= leaves the        *)
(* resizable destination with the source's rows and columns; when the      *)
(* destination cannot be resized and its shape differs from the source's,  *)
(* copy_using_evaluator reports a precondition violation.                  *)
(***************************************************************************)
C6_ShapeInvariance ==
  /\ pc = "assigned" => (SameShape /\ DstHoldsSrc)
  /\ (pc = "copied" /\ ~SameShape) => (failed /\ trace = <<>>)

\* the resizing half of C6, which the code keeps
C6_ResizedToSource ==
  pc = "assigned" => (SameShape /\ DstHoldsSrc)

\* a fixed 2 x 2 destination has been given a 1 x 1 source: the executor has
\* run over the destination's four positions and nothing has been reported
C6_MismatchGoesUnreported ==
  /\ pc = "copied"
  /\ dst.rows = 2 /\ dst.cols = 2
  /\ src.rows = 1 /\ src.cols = 1
  /\ Len(Moves(trace)) = 4
  /\ ~failed

(***************************************************************************)
(* Blocks of a 1-D domain and rectangles of a 2-D domain.                  *)
(***************************************************************************)
In1d(b, x) == b[1] <= x /\ x < b[1] + b[2]

In2d(b, x, y) == b[1] <= x /\ x < b[1] + b[2] /\ b[3] <= y /\ y < b[3] + b[4]

RECURSIVE SumOfLengths(_)
SumOfLengths(blocks) ==
  IF blocks = <<>> THEN 0 ELSE Head(blocks)[2] + SumOfLengths(Tail(blocks))

PairwiseDisjoint1d ==
  \A i, j \in 1 .. Len(calls) :
     i # j => ~ \E x \in 0 .. MaxSize1 + 1 : In1d(calls[i], x) /\ In1d(calls[j], x)

Covers1d == \A x \in 0 .. par.size1 - 1 : \E i \in 1 .. Len(calls) : In1d(calls[i], x)

PairwiseDisjoint2d ==
  \A i, j \in 1 .. Len(calls) :
     i # j => ~ \E x \in 0 .. MaxSize2 + 1, y \in 0 .. MaxSize2 + 1 :
                   In2d(calls[i], x, y) /\ In2d(calls[j], x, y)

Covers2d ==
  \A x \in 0 .. par.size1 - 1, y \in 0 .. par.size2 - 1 :
     \E i \in 1 .. Len(calls) : In2d(calls[i], x, y)

Within2d ==
  \A i \in 1 .. Len(calls) :
     /\ calls[i][1] >= 0 /\ calls[i][2] >= 0
     /\ calls[i][1] + calls[i][2] <= par.size1
     /\ calls[i][3] >= 0 /\ calls[i][4] >= 0
     /\ calls[i][3] + calls[i][4] <= par.size2

(***************************************************************************)
(* C7 as stated: for every N >= 0 and T >= 1 the blocks that               *)
(* ei_run_parallel_1d passes to the block function are pairwise disjoint,  *)
(* their lengths sum to N and they cover [0, N); the parallel branch makes *)
(* T blocks, the fallback one block (0, N).                                *)
(***************************************************************************)
C7_BlocksPartition1d ==
  (pc = "returned" /\ par.kind = "1d") =>
     /\ PairwiseDisjoint1d
     /\ SumOfLengths(calls) = par.size1
     /\ Covers1d
     /\ Len(calls) = IF InParallelBranch THEN par.procs ELSE 1
     /\ ~InParallelBranch => calls = << <<0, par.size1>> >>

\* N = 17 on T = 4 workers: four blocks of four, element 16 in none
C7_RemainderDropped ==
  /\ pc = "returned" /\ par.kind = "1d" /\ InParallelBranch
  /\ par.size1 = 17 /\ par.procs = 4
  /\ calls = << <<0, 4>>, <<4, 4>>, <<8, 4>>, <<12, 4>> >>

(***************************************************************************)
(* C8 as stated: for every size1 x size2 and T in 1..16 the parallel       *)
(* branch of ei_run_parallel_2d invokes the block function exactly T       *)
(* times, divide1[T] * divide2[T] = T, and the rectangles are pairwise     *)
(* disjoint with the whole domain as their union.                          *)
(***************************************************************************)
C8_RectanglesPartition2d ==
  (pc = "returned" /\ par.kind = "2d" /\ InParallelBranch
     /\ par.procs \in 1 .. MaxThreads) =>
     /\ Len(calls) = par.procs
     /\ divide1[par.procs + 1] * divide2[par.procs + 1] = par.procs
     /\ PairwiseDisjoint2d
     /\ Within2d
     /\ Covers2d

\* the part of C8 the code keeps: T invocations on disjoint rectangles
\* inside the domain
C8_DisjointInvocations ==
  (pc = "returned" /\ par.kind = "2d" /\ InParallelBranch) =>
     /\ Len(calls) = par.procs
     /\ divide1[par.procs + 1] * divide2[par.procs + 1] = par.procs
     /\ PairwiseDisjoint2d
     /\ Within2d

\* 5 x 5 on T = 2 workers: two rectangles of 2 x 5, row 4 in none
C8_RemainderDropped ==
  /\ pc = "returned" /\ par.kind = "2d" /\ InParallelBranch
  /\ par.size1 = 5 /\ par.size2 = 5 /\ par.procs = 2
  /\ calls = << <<0, 2, 0, 5>>, <<2, 2, 0, 5>> >>

(***************************************************************************)
(* C9: when the worker count exceeds 16, the parallel branch of            *)
(* ei_run_parallel_2d fails its assertion before reading the divide tables *)
(* and before invoking the block function: no block is processed.          *)
(***************************************************************************)
C9_TooManyThreadsAborts ==
  (pc # "call" /\ par.kind = "2d" /\ InParallelBranch
     /\ par.procs > MaxThreads) =>
     /\ failed
     /\ pc = "aborted"
     /\ par.reads = <<>>
     /\ calls = <<>>

\* a call with 17 workers on a non-empty domain has been aborted
C9_Witness ==
  /\ pc = "aborted" /\ par.kind = "2d" /\ InParallelBranch
  /\ par.procs = MaxThreads + 1
  /\ par.size1 > 0 /\ par.size2 > 0
  /\ failed /\ calls = <<>>

(***************************************************************************)
(* C10: reading reverse(reverse(X)), both reverses of one direction, by    *)
(* (row, col) returns X(row, col) at every position, and for               *)
(* BothDirections reading it by linear index i returns X(i); a single      *)
(* BothDirections reverse of [1,2,3,4] reads [4,3,2,1].                    *)
(***************************************************************************)
C10_ReverseRoundTrip ==
  /\ (pc = "expr" /\ Len(rev.dirs) = 2 /\ rev.dirs[1] = rev.dirs[2]) =>
        /\ \A p \in DOMAIN view.byRowCol :
              view.byRowCol[p] = MatrixCoeff(rev, p[1], p[2])
        /\ rev.dirs[1] = "BothDirections" =>
              \A i \in DOMAIN view.byIndex :
                 view.byIndex[i] = MatrixCoeffByIndex(rev, i)
  /\ (pc = "expr" /\ rev.dirs = <<"BothDirections">>
        /\ rev.rows * rev.cols = 4 /\ (rev.rows = 1 \/ rev.cols = 1)) =>
        /\ \A i \in 0 .. 3 : view.byIndex[i] = 4 - i
        /\ \A p \in DOMAIN view.byRowCol :
              view.byRowCol[p] = 4 - (p[1] + p[2])

\* a 2 x 3 column-major matrix reversed twice in both directions
C10_Witness ==
  /\ pc = "expr"
  /\ rev.dirs = <<"BothDirections", "BothDirections">>
  /\ rev.rows = 2 /\ rev.cols = 3 /\ ~rev.rm
  /\ view.byRowCol[<<1, 2>>] = 6
  /\ view.byIndex[0] = 1

\* the sum over j of lhs(i, j) * rhs(j, k)
RECURSIVE DotProduct(_, _, _, _)
DotProduct(x, i, k, n) ==
  IF n = 0 THEN 0
  ELSE DotProduct(x, i, k, n - 1)
       + LhsCoeff(x, i, n - 1) * RhsCoeff(x, n - 1, k)

\* the operands are [[1,2,3],[4,5,6]] and [[7,8],[9,10],[11,12]]
ProductExample ==
  /\ prod.rows = 2 /\ prod.inner = 3 /\ prod.cols = 2
  /\ prod.lhs0 = 1 /\ prod.rhs0 = 7

ExampleResult ==
  (<<0, 0>> :> 58) @@ (<<0, 1>> :> 64) @@ (<<1, 0>> :> 139) @@ (<<1, 1>> :> 154)

EvaluatedIsProduct ==
  prod.evaluated =>
    /\ \A c \in ProductCells(prod) :
          prod.res[c] = DotProduct(prod, c[1], c[2], prod.inner)
    /\ ProductExample => prod.res = ExampleResult

(***************************************************************************)
(* C11 as stated: for every shape m x n times n x p, n >= 1,               *)
(* _cacheOptimalEval leaves every destination cell (i, k) equal to the sum *)
(* over j of lhs(i,j) * rhs(j,k), whatever the destination held before,    *)
(* and equal to what Product::_coeff(i, k) returns; the 2 x 3 by 3 x 2     *)
(* example gives [[58,64],[139,154]].                                      *)
(***************************************************************************)
C11_CacheOptimalEvalIsProduct ==
  pc = "product" =>
    /\ EvaluatedIsProduct
    /\ prod.read =>
         \A c \in ProductCells(prod) :
            prod.coeffs[c] = DotProduct(prod, c[1], c[2], prod.inner)
    /\ (prod.evaluated /\ prod.read) => prod.res = prod.coeffs

\* the part of C11 about _cacheOptimalEval alone
C11_CacheOptimalEvalCorrect == pc = "product" => EvaluatedIsProduct

\* _coeff agrees with the sum when the left operand's columns are static
C11_CoeffCorrectWhenStatic ==
  (pc = "product" /\ prod.read /\ prod.LhsCols # Dynamic) =>
     \A c \in ProductCells(prod) :
        prod.coeffs[c] = DotProduct(prod, c[1], c[2], prod.inner)

\* the example with dynamic-size operands: the destination holds the product,
\* the coefficients read through _coeff do not
C11_CoeffOfDynamicProductIsGarbage ==
  /\ pc = "product" /\ ProductExample /\ prod.LhsCols = Dynamic
  /\ prod.evaluated /\ prod.read
  /\ prod.res = ExampleResult
  /\ prod.coeffs # ExampleResult

(***************************************************************************)
(* The matrix a HouseholderSequence stands for: the product                *)
(* H_0 H_1 ... H_(length-1) of the reflections H_k = I - h_k v_k v_k^T,    *)
(* v_k being 0 above row k + shift, 1 in that row and the essential part   *)
(* below it; transposed when the trans flag is set.                        *)
(***************************************************************************)
FullVector(h, k, r) ==
  IF r < k + h.shift THEN 0 ELSE HouseholderVector(h, k, r - k - h.shift)

Reflector(h, k) ==
  [c \in Square(h.n) |->
     (IF c[1] = c[2] THEN 1 ELSE 0)
       - h.coeffs[k + 1] * FullVector(h, k, c[1]) * FullVector(h, k, c[2])]

MatMul(A, B, n) ==
  [c \in Square(n) |->
     SumFn([j \in 0 .. n - 1 |-> A[<<c[1], j>>] * B[<<j, c[2]>>]], 0, n - 1)]

Transposed(A, n) == [c \in Square(n) |-> A[<<c[2], c[1]>>]]

\* H_0 H_1 ... H_(m-1)
RECURSIVE SequenceProduct(_, _)
SequenceProduct(h, m) ==
  IF m = 0 THEN [c \in Square(h.n) |-> IF c[1] = c[2] THEN 1 ELSE 0]
  ELSE MatMul(SequenceProduct(h, m - 1), Reflector(h, m - 1), h.n)

SequenceMatrix(h) ==
  IF h.trans THEN Transposed(SequenceProduct(h, h.length), h.n)
  ELSE SequenceProduct(h, h.length)

(***************************************************************************)
(* C12: expanding a HouseholderSequence into a destination that does not   *)
(* alias its vector storage gives the matrix of the sequence, whatever the *)
(* destination held; two consecutive evalTo calls give the same matrix;    *)
(* the vectors and coefficients of the sequence are unchanged.             *)
(***************************************************************************)
C12_EvalToDependsOnSequenceOnly ==
  pc = "sequence" =>
    /\ \A i \in 1 .. Len(hseq.results) :
          hseq.results[i] = SequenceMatrix(hseq)
    /\ Len(hseq.results) = 2 => hseq.results[1] = hseq.results[2]
    /\ Len(hseq.results) > 0 => hseq.dst \in
          {hseq.results[Len(hseq.results)], setIdentity(HRows(hseq))}
    /\ hseq.vectors = HVectors(hseq.n, hseq.v0)
    /\ hseq.coeffs = HCoeffs(hseq.n, hseq.t0)

\* a 3 x 3 sequence of two reflections expanded twice, the second time into
\* the identity, the result being neither the identity nor diagonal
C12_Witness ==
  /\ pc = "sequence"
  /\ hseq.n = 3 /\ hseq.length >= 2
  /\ Len(hseq.results) = 2
  /\ hseq.results[1] # setIdentity(3)
  /\ hseq.results[2][<<2, 1>>] # 0

(***************************************************************************)
(* C13: all Schedule calls being made by one thread, the functions begin   *)
(* in the order they were scheduled in: no worker begins a function before *)
(* every function scheduled earlier has been begun by some worker.         *)
(***************************************************************************)
C13_StartInScheduledOrder ==
  pc = "pool" =>
    \A b \in 1 .. Len(pool.started) :
      \A f \in 1 .. pool.started[b] - 1 :
        \E a \in 1 .. b - 1 : pool.started[a] = f

\* two workers: function 2 has begun while function 1, handed to a waiting
\* worker by Schedule, has not: that worker has not run since
C13_LaterFunctionBeginsFirst ==
  /\ pc = "pool"
  /\ pool.started = <<2>>
  /\ \E w \in WorkerIds(pool) :
        /\ pool.thread[w].at = "waiting"
        /\ pool.thread[w].ready
        /\ pool.thread[w].work = 1

\* with one worker the order is kept
C13_OneWorkerStartsInOrder ==
  (pc = "pool" /\ pool.nthreads = 1) => C13_StartInScheduledOrder

(***************************************************************************)
(* C14: ~ThreadPool returns only after every function scheduled before it  *)
(* has finished, whether it was queued in pending_ or handed to a waiting  *)
(* worker, and after every worker thread has left its loop.                *)
(***************************************************************************)
C14_DestructorWaitsForWorkAndThreads ==
  (pc = "pool" /\ pool.client = "destroyed") =>
    /\ pool.finished = 1 .. pool.scheduled
    /\ pool.pending = <<>>
    /\ \A w \in WorkerIds(pool) :
          pool.thread[w].at = "exited" /\ pool.thread[w].work = NoWork

\* a pool of two threads destroyed after two functions were scheduled
C14_Witness ==
  /\ pc = "pool"
  /\ pool.client = "destroyed"
  /\ pool.nthreads = 2
  /\ pool.scheduled = 2
  /\ pool.started = <<2, 1>>

(***************************************************************************)
(* C15: WaitForNotification on the Notification of an enqueue call never   *)
(* returns before f(args) has returned and Notify has been called; Notify  *)
(* is called once per Notification, a second call failing the assertion;   *)
(* every thread waiting for a notified Notification is released.           *)
(***************************************************************************)
NotificationSafety ==
  pc = "pool" =>
    /\ \A t \in 1 .. MaxWaiters :
          pool.waiting[t].at = "returned" =>
            /\ pool.waiting[t].n \in pool.returned
            /\ pool.waiting[t].n \in pool.notified
            /\ pool.notifyCalls[pool.waiting[t].n] >= 1
    /\ \A n \in 1 .. MaxFns :
          /\ n \in pool.notified <=> pool.notifyCalls[n] >= 1
          /\ n \in pool.finished => pool.notifyCalls[n] >= 1
          /\ pool.notifyCalls[n] >= 1 => n \in pool.returned
    /\ ~failed => \A n \in 1 .. MaxFns : pool.notifyCalls[n] <= 1
    /\ failed => \E n \in 1 .. MaxFns : pool.notifyCalls[n] = 2

WaiterReleased(t) ==
  (pc = "pool" /\ pool.waiting[t].at = "waiting"
     /\ pool.waiting[t].n \in pool.notified)
    ~> (pool.waiting[t].at = "returned" \/ failed)

C15_WaitersReleasedAfterNotify ==
  /\ []NotificationSafety
  /\ \A t \in 1 .. MaxWaiters : WaiterReleased(t)

\* two threads waited for the same Notification and both have returned
C15_Witness ==
  /\ pc = "pool"
  /\ ~failed
  /\ \E n \in 1 .. MaxFns :
        /\ pool.notifyCalls[n] = 1
        /\ \A t \in 1 .. 2 : pool.waiting[t] = [at |-> "returned", n |-> n]

\* a second Notify on a Notification has failed the assertion
C15_SecondNotifyFails ==
  pc = "pool" /\ failed /\ \E n \in 1 .. MaxFns : pool.notifyCalls[n] = 2

(***************************************************************************)
(* C16: the permutation matrices follow P_(sigma o tau) = P_sigma P_tau:   *)
(* (sigma * tau).indices()[i] = sigma.indices()[tau.indices()[i]]; the     *)
(* dense matrix evalTo builds has the single 1 of column i in row          *)
(* indices()[i]; the dense matrix of the product is the matrix product of  *)
(* the dense matrices; sigma * sigma.inverse() is the identity.            *)
(***************************************************************************)
\* column i of M is the canonical basis vector e_r
IsBasisColumn(M, n, i, r) ==
  \A j \in Indices(n) : M[<<j, i>>] = (IF j = r THEN 1 ELSE 0)

C16_ProductIsComposition ==
  pc = "permutation" =>
    /\ "product" \in perm.done =>
          \A i \in Indices(perm.n) : perm.product[i] = perm.sigma[perm.tau[i]]
    /\ \A o \in perm.denseDone : \A i \in Indices(perm.n) :
          IsBasisColumn(perm.dense[o], perm.n, i, IndicesOf(perm, o)[i])
    /\ perm.denseDone = PermOperands =>
          perm.dense["product"] = MatMul(perm.dense["sigma"], perm.dense["tau"], perm.n)
    /\ "timesInverse" \in perm.done =>
          \A i \in Indices(perm.n) : perm.timesInverse[i] = i

\* two permutations of 0 .. 2 that do not commute, multiplied, inverted and
\* evaluated to dense matrices
C16_Witness ==
  /\ pc = "permutation"
  /\ perm.n = 3
  /\ perm.denseDone = PermOperands
  /\ "timesInverse" \in perm.done
  /\ perm.product # ProductIndices(perm.tau, perm.sigma, perm.n)
  /\ perm.inverse # perm.sigma

(***************************************************************************)
(* C17: may_unroll_completely is true exactly when the destination's total *)
(* size is static, the source's read cost is static and size * cost is at  *)
(* most 16 * (P if vectorized, else 1); may_unroll_inner is the same with  *)
(* the static inner size; the vectorized flag is true exactly for the      *)
(* InnerVectorized, LinearVectorized and SliceVectorized traversals.       *)
(***************************************************************************)
C17_UnrollPredicatesFollowBudget ==
  pc = "classified" =>
    /\ traits.Vectorized = vectorized_flag(traits.Traversal)
    /\ traits.MayUnrollCompletely =
          may_unroll_completely(dstType, srcType, traits.Traversal)
    /\ traits.MayUnrollInner =
          may_unroll_inner(dstType, srcType, traits.Traversal)

\* a vectorized traversal whose complete unrolling fits only the budget of
\* 16 packets, and whose cost is static
C17_Witness ==
  /\ pc = "classified"
  /\ traits.Vectorized
  /\ traits.MayUnrollCompletely
  /\ traits.MayUnrollInner
  /\ SizeAtCompileTime(dstType) * srcType.Cost > EIGEN_UNROLLING_LIMIT

(***************************************************************************)
(* C18: ei_alignmentOffset(ptr, maxOffset), for a pointer whose element    *)
(* index is a = address / sizeof(Scalar) and maxOffset >= 0, returns       *)
(* min(o, maxOffset), o being the least offset in [0, PacketSize) with     *)
(* (a + o) mod PacketSize = 0; it returns 0 when PacketSize is 1; the      *)
(* result is within [0, maxOffset].                                        *)
(***************************************************************************)
ElementIndex(T, address) == address \div T.sizeof

LeastAligningOffset(T, a) ==
  CHOOSE o \in 0 .. T.size - 1 :
    /\ (a + o) % T.size = 0
    /\ \A q \in 0 .. o - 1 : (a + q) % T.size # 0

C18_ProbeReturnsLeastOffsetCapped ==
  (pc = "probe" /\ probe.returned) =>
    /\ probe.result =
          Min(LeastAligningOffset(probe.T, ElementIndex(probe.T, probe.ptr)),
              probe.maxOffset)
    /\ probe.T.size = 1 => probe.result = 0
    /\ probe.result \in 0 .. probe.maxOffset
    /\ (probe.T.size = PacketSize /\ probe.ptr % probe.T.sizeof = 0) =>
          probe.result = ei_alignmentOffset(ElementIndex(probe.T, probe.ptr),
                                            probe.maxOffset)

\* a pointer three elements short of a packet boundary, probed with room
\* for the offset
C18_Witness ==
  /\ pc = "probe"
  /\ probe.returned
  /\ probe.T.size = 4
  /\ ElementIndex(probe.T, probe.ptr) % 4 = 1
  /\ probe.maxOffset = 5
  /\ probe.result = 3

(***************************************************************************)
(* What an executor with a scalar prefix, a packet middle and a scalar     *)
(* tail issues for the n positions that begin at offset off0, given its    *)
(* alignedStart and alignedEnd: the kind and destination offset of each    *)
(* transfer, in order.                                                     *)
(***************************************************************************)
RangeTransfers(alignedStart, alignedEnd, n, off0) ==
  [i \in 1 .. alignedStart |-> <<"coeff", off0 + i - 1>>]
  \o [j \in 1 .. ((alignedEnd - alignedStart) \div PacketSize) |->
        <<"packet", off0 + alignedStart + (j - 1) * PacketSize>>]
  \o [i \in 1 .. (n - alignedEnd) |-> <<"coeff", off0 + alignedEnd + i - 1>>]

KindsAndOffsets(tr) == [i \in 1 .. Len(tr) |-> <<tr[i][1], tr[i][2]>>]

Ran(traversal) ==
  /\ pc = "done"
  /\ traits.Traversal = traversal
  /\ traits.Unrolling = "None"

(***************************************************************************)
(* C19: in the LinearVectorized / NoUnrolling executor, for every size and *)
(* destination base alignment, 0 <= alignedStart <= alignedEnd <= size,    *)
(* alignedEnd - alignedStart is a multiple of the packet width and         *)
(* size - alignedEnd is less than it; [0, alignedStart) and                *)
(* [alignedEnd, size) are copied one element at a time, and                *)
(* [alignedStart, alignedEnd) by packets; alignedStart is 0 when the       *)
(* destination is statically aligned.                                      *)
(***************************************************************************)
C19_LinearRangesPartition ==
  Ran("LinearVectorized") =>
    LET alignedStart == Linear_alignedStart(Assignment)
        alignedEnd   == Linear_alignedEnd(Assignment)
        sz           == size(dst)
    IN  /\ 0 <= alignedStart /\ alignedStart <= alignedEnd /\ alignedEnd <= sz
        /\ (alignedEnd - alignedStart) % PacketSize = 0
        /\ sz - alignedEnd < PacketSize
        /\ KindsAndOffsets(trace) = RangeTransfers(alignedStart, alignedEnd, sz, 0)
        /\ dstType.Aligned => alignedStart = 0

\* a prefix of 3 scalars, one packet and a tail of 2 scalars
C19_Witness ==
  /\ Ran("LinearVectorized")
  /\ Linear_alignedStart(Assignment) = 3
  /\ Linear_alignedEnd(Assignment) = 7
  /\ size(dst) = 9

(***************************************************************************)
(* C20: in the SliceVectorized executor the alignedStart used for every    *)
(* outer slice k is what a fresh alignment probe of the slice's first      *)
(* element returns, capped at innerSize: the incremental update tracks the *)
(* alignment of each slice for all inner sizes, outer strides and base     *)
(* alignments.                                                             *)
(***************************************************************************)
\* the probe of the first element of slice k
FreshProbe(a, k) ==
  Min(LeastAligningOffset([sizeof |-> 1, size |-> PacketSize],
                          a.d.base + k * a.d.stride),
      innerSize(a.D, a.d))

Slice_alignedEnd(a, k) ==
  Slice_alignedStart(a, k)
  + ((innerSize(a.D, a.d) - Slice_alignedStart(a, k)) \div PacketSize) * PacketSize

\* the transfers of the slices k, k + 1, ...
RECURSIVE SliceTransfers(_, _)
SliceTransfers(a, k) ==
  IF k >= outerSize(a.D, a.d) THEN <<>>
  ELSE RangeTransfers(Slice_alignedStart(a, k), Slice_alignedEnd(a, k),
                      innerSize(a.D, a.d), k * a.d.stride)
       \o SliceTransfers(a, k + 1)

Slices == 0 .. outerSize(dstType, dst) - 1

\* the claim as stated
C20_AlignedStartIsFreshProbe ==
  Ran("SliceVectorized") =>
    /\ KindsAndOffsets(trace) = SliceTransfers(Assignment, 0)
    /\ \A k \in Slices : Slice_alignedStart(Assignment, k) = FreshProbe(Assignment, k)

\* the claim for the inner sizes where it holds, with what takes its place
\* for the smaller ones
C20_AlignedStartTracksProbeFromPacketMinusOne ==
  Ran("SliceVectorized") =>
    /\ KindsAndOffsets(trace) = SliceTransfers(Assignment, 0)
    /\ innerSize(dstType, dst) >= PacketSize - 1 =>
          \A k \in Slices :
             Slice_alignedStart(Assignment, k) = FreshProbe(Assignment, k)
    /\ innerSize(dstType, dst) < PacketSize - 1 =>
          \A i \in 1 .. Len(trace) : trace[i][1] = "coeff"
    /\ \A i \in 1 .. Len(trace) :
          trace[i][1] = "packet" => (dst.base + trace[i][2]) % PacketSize = 0

\* slices whose alignment rotates, copied with packets
C20_Witness ==
  /\ Ran("SliceVectorized")
  /\ innerSize(dstType, dst) = 6
  /\ outerSize(dstType, dst) = 3
  /\ Slice_alignedStart(Assignment, 0) = 3
  /\ Slice_alignedStart(Assignment, 1) = 1
  /\ Slice_alignedStart(Assignment, 2) = 3
  /\ \E i \in 1 .. Len(trace) : trace[i][1] = "packet"

\* an inner size of 2: the cap at innerSize has lost the alignment of slice 0
C20_CapLosesAlignment ==
  /\ Ran("SliceVectorized")
  /\ innerSize(dstType, dst) = 2
  /\ \E k \in Slices :
        /\ Slice_alignedStart(Assignment, k) = 2
        /\ FreshProbe(Assignment, k) = 0

(***************************************************************************)
(* C21: every unrolling recursion started at Index = 0 reaches its         *)
(* Index = Stop specialization after exactly Stop scalar transfers, or     *)
(* Stop / packetSize packet transfers, for every static bound the          *)
(* classifier pairs it with, Stop = 0 and Stop = 1 included; the           *)
(* LinearVectorized / CompleteUnrolling executor issues packets for        *)
(* [0, alignedSize) and then scalars for [alignedSize, size), with         *)
(* alignedSize = (size / packetSize) * packetSize.                         *)
(***************************************************************************)
AllOfKind(tr, kind) == \A i \in 1 .. Len(tr) : tr[i][1] = kind

C21_UnrollersStopAtBound ==
  (pc = "done" /\ traits.Unrolling \in {"Complete", "Inner"}) =>
    LET sz == size(dst)
    IN  /\ \A i \in 1 .. Len(trace) : trace[i] # Runaway
        /\ traits.Traversal \in {"Default", "Linear"} =>
              Len(trace) = sz /\ AllOfKind(trace, "coeff")
        /\ traits.Traversal = "InnerVectorized" =>
              Len(trace) * PacketSize = sz /\ AllOfKind(trace, "packet")
        /\ traits.Traversal = "LinearVectorized" =>
              KindsAndOffsets(trace) =
                RangeTransfers(0, (sz \div PacketSize) * PacketSize, sz, 0)
        /\ traits.Traversal # "SliceVectorized"

\* a completely unrolled LinearVectorized copy of more than a packet with a
\* scalar tail
C21_Witness ==
  /\ pc = "done"
  /\ traits = [Traversal |-> "LinearVectorized", Unrolling |-> "Complete"]
  /\ size(dst) > PacketSize
  /\ size(dst) % PacketSize # 0

\* recursions with the bounds 0 and 1
C21_SmallestBounds ==
  /\ pc = "done"
  /\ traits.Unrolling \in {"Complete", "Inner"}
  /\ size(dst) \in {0, 1}


\* the i-th position after p along the inner (storage) direction
InnerNeighbour(x, p, i) ==
  IF x.rm THEN <<p[1], p[2] + i>> ELSE <<p[1] + i, p[2]>>

\* C22: for every direction, both storage orders and every nesting, the
\* packet of a Reverse at (row, col) holds, lane by lane, the coefficients
\* of the Reverse at the consecutive inner positions from (row, col) on; the
\* packet at an index holds coeff(index) .. coeff(index + PacketSize - 1);
\* writePacket stores lane i where the coefficient of the i-th position is
\* read from; and every nested packet access stays inside the bounds of the
\* nested expression whenever the requested packet fits the Reverse.
C22_PacketMatchesCoeff ==
  /\ \A p \in DOMAIN view.packets : \A i \in 1 .. PacketSize :
        /\ view.packets[p][i] = view.byRowCol[InnerNeighbour(rev, p, i - 1)]
        /\ \E j \in 1 .. PacketSize :
              view.stores[p][j] =
                <<view.byRowCol[InnerNeighbour(rev, p, i - 1)] - 1,
                  WrittenPacket[i]>>
        /\ view.inBounds[p]
  /\ \A k \in DOMAIN view.packetsByIndex : \A i \in 1 .. PacketSize :
        /\ view.packetsByIndex[k][i] = view.byIndex[k + i - 1]
        /\ \E j \in 1 .. PacketSize :
              view.storesByIndex[k][j] =
                <<view.byIndex[k + i - 1] - 1, WrittenPacket[i]>>

\* a packet that starts inside a column of a vertically reversed
\* column-major matrix: the offset is the packet width and the lanes swap
C22_Witness ==
  /\ rev.dirs = <<"Vertical">>
  /\ ~rev.rm
  /\ rev.rows > PacketSize
  /\ <<1, 0>> \in DOMAIN view.packets
  /\ view.packets[<<1, 0>>][1] = rev.rows - 1

\* a packet seen through two wrappers of different directions
C22_NestedWitness ==
  /\ Len(rev.dirs) = MaxDepth
  /\ rev.dirs[1] # rev.dirs[2]
  /\ rev.rm
  /\ <<0, 1>> \in DOMAIN view.packets


\* C23: a Reverse advertises packet access only if the expression it nests
\* does; linear access only if its direction is BothDirections and the
\* nested expression has both linear and packet access; and the
\* upper-triangular hint exactly when the nested expression advertises the
\* lower-triangular one, and the other way round.
C23_ReverseFlagsAreDerived ==
  \A k \in 1 .. Len(rev.dirs) :
    LET nested == view[k]
        Flags  == view[k + 1]
    IN  /\ "PacketAccessBit" \in Flags => "PacketAccessBit" \in nested
        /\ "LinearAccessBit" \in Flags =>
              /\ rev.dirs[k] = "BothDirections"
              /\ "LinearAccessBit" \in nested
              /\ "PacketAccessBit" \in nested
        /\ "UpperTriangularBit" \in Flags <=> "LowerTriangularBit" \in nested
        /\ "LowerTriangularBit" \in Flags <=> "UpperTriangularBit" \in nested

\* a bidirectional Reverse that keeps linear and packet access and turns a
\* lower-triangular hint into an upper-triangular one
C23_Witness ==
  /\ rev.dirs = <<"BothDirections">>
  /\ {"LinearAccessBit", "PacketAccessBit", "UpperTriangularBit"} \subseteq view[2]
  /\ "LowerTriangularBit" \notin view[2]
  /\ "LowerTriangularBit" \in view[1]

\* a Vertical Reverse of an expression with linear and packet access
C23_DirectionalWitness ==
  /\ rev.dirs = <<"Vertical">>
  /\ {"LinearAccessBit", "PacketAccessBit"} \subseteq view[1]
  /\ "PacketAccessBit" \in view[2]
  /\ "LinearAccessBit" \notin view[2]


\* res after the assignments of steps, made in order on a res that holds
\* res0 before
RECURSIVE ResAfter(_, _, _, _, _)
ResAfter(x, row, col, steps, res0) ==
  IF steps = <<>> THEN res0
  ELSE LET last == steps[Len(steps)]
           term == LhsCoeff(x, row, last[2]) * RhsCoeff(x, last[2], col)
       IN  IF last[1] = "=" THEN term
           ELSE ResAfter(x, row, col, SubSeq(steps, 1, Len(steps) - 1), res0)
                + term

\* C24: for a static inner dimension n >= 1 whose read cost is within the
\* unrolling limit, the unroller first sets res to lhs(r, 0) * rhs(0, c) and
\* then adds lhs(r, k) * rhs(k, c) for k = 1 .. n - 1 in increasing k, which
\* are the steps and the value of the run-time loop, n terms in all.
C24_UnrollerMatchesLoop ==
  (prod # Null /\ prod.read /\ prod.LhsCols # Dynamic
     /\ ProductCoeffReadCost(prod) <= EIGEN_UNROLLING_LIMIT) =>
    LET n == prod.LhsCols
    IN  /\ Len(prod.steps) = n
        /\ prod.steps =
              [k \in 1 .. n |-> IF k = 1 THEN <<"=", 0>> ELSE <<"+=", k - 1>>]
        /\ prod.steps = CoeffLoopSteps(prod, 1, << <<"=", 0>> >>)
        /\ \A c \in DOMAIN prod.coeffs :
              /\ prod.coeffs[c] = ResAfter(prod, c[1], c[2], prod.steps, 0)
              /\ prod.coeffs[c] =
                    CoeffLoop(prod, c[1], c[2], 1,
                              LhsCoeff(prod, c[1], 0) * RhsCoeff(prod, 0, c[2]))

\* an unrolled coefficient of more than two terms
C24_Witness ==
  /\ prod # Null
  /\ prod.read
  /\ prod.LhsCols > 2
  /\ ProductCoeffReadCost(prod) <= EIGEN_UNROLLING_LIMIT
  /\ Len(prod.steps) = prod.LhsCols

\* the smallest static inner dimension: one term and no addition
C24_OneTerm ==
  /\ prod # Null
  /\ prod.read
  /\ prod.LhsCols = 1
  /\ prod.steps = << <<"=", 0>> >>


\* how many entries of v equal x
Occurrences(v, x) == Cardinality({j \in DOMAIN v : v[j] = x})

\* C25: after compute the eigenvalues are non-decreasing, they are the
\* eigenvalues the QR iteration left, each as often as before, and every
\* column of the eigenvectors stands at the position of the eigenvalue it
\* belonged to before the sort.
C25_SortKeepsEigenpairs ==
  (eig # Null /\ eig.sorted) =>
    /\ \A j \in 1 .. eig.n - 1 : eig.m_eivalues[j] <= eig.m_eivalues[j + 1]
    /\ \A x \in EigenValues :
          Occurrences(eig.m_eivalues, x) = Occurrences(eig.unsorted, x)
    /\ \A j \in 1 .. eig.n :
          eig.m_eivalues[j] = eig.unsorted[eig.m_eivec[j] + 1]
    /\ {eig.m_eivec[j] : j \in 1 .. eig.n} = 0 .. eig.n - 1

\* a sort that had to move a column past equal eigenvalues
C25_Witness ==
  /\ eig # Null
  /\ eig.sorted
  /\ eig.n >= 3
  /\ eig.unsorted[1] > eig.unsorted[2]
  /\ eig.unsorted[2] = eig.unsorted[3]
  /\ eig.m_eivec[1] = 1


(***************************************************************************)
(* C26: in the SliceVectorized executor, for every inner size, outer size, *)
(* outer stride and base alignment of a destination aligned on scalars,    *)
(* every packet store is at an inner index whose destination address is a  *)
(* multiple of the packet width and whose packet lies inside the current   *)
(* slice (alignedStart <= inner and inner + packetSize <= innerSize); with *)
(* innerSize < packetSize there is no packet store at all.                 *)
(***************************************************************************)
C26_SlicePacketStoresAlignedInsideSlice ==
  Ran("SliceVectorized") =>
    /\ \A i \in 1 .. Len(trace) :
          trace[i][1] = "packet" =>
            LET outer == trace[i][2] \div dst.stride
                inner == trace[i][2] % dst.stride
            IN  /\ (dst.base + trace[i][2]) % PacketSize = 0
                /\ outer < outerSize(dstType, dst)
                /\ Slice_alignedStart(Assignment, outer) <= inner
                /\ inner + PacketSize <= innerSize(dstType, dst)
    /\ innerSize(dstType, dst) < PacketSize =>
          \A i \in 1 .. Len(trace) : trace[i][1] # "packet"

\* a misaligned base and a stride that is no multiple of the packet width:
\* a packet store in the second slice, after a scalar prefix
C26_Witness ==
  /\ Ran("SliceVectorized")
  /\ dst.base % PacketSize # 0
  /\ dst.stride % PacketSize # 0
  /\ \E i \in 1 .. Len(trace) :
        /\ trace[i][1] = "packet"
        /\ trace[i][2] \div dst.stride = 1
        /\ trace[i][2] % dst.stride > 0

\* slices narrower than a packet
C26_NarrowSlices ==
  /\ Ran("SliceVectorized")
  /\ innerSize(dstType, dst) = PacketSize - 1
  /\ outerSize(dstType, dst) > 1
  /\ Len(trace) = size(dst)


(***************************************************************************)
(* C27: in the SliceVectorized and LinearVectorized executors, whenever a  *)
(* source packet is loaded in Aligned mode, the source address of the load *)
(* is a multiple of the packet width, for every pair of destination and    *)
(* source outer strides the traits admit.                                  *)
(***************************************************************************)
AlignedLoadsAreAligned ==
  \A i \in 1 .. Len(trace) :
    (trace[i][1] = "packet" /\ trace[i][5] = "Aligned") =>
      (src.base + trace[i][3]) % PacketSize = 0

C27_AlignedLoadsAtAlignedAddresses ==
  (Ran("SliceVectorized") \/ Ran("LinearVectorized")) => AlignedLoadsAreAligned

\* the part that holds: the LinearVectorized executor
C27_LinearAlignedLoads ==
  Ran("LinearVectorized") => AlignedLoadsAreAligned

\* an aligned destination with the access bits of a Map<MatrixXf, Aligned,
\* OuterStride<> > whose outer stride is its inner size plus one, and an
\* aligned, contiguous source, for which the traits select
\* SliceVectorized: in the second slice a packet is stored at an aligned
\* destination address and loaded in Aligned mode from a source address
\* that is no multiple of the packet width
C27_MisalignedAlignedLoad ==
  /\ Ran("SliceVectorized")
  /\ Traversal(dstType, srcType) = "SliceVectorized"
  /\ Unrolling(dstType, srcType) = "None"
  /\ LET map == ei_traits_Map([Linear |-> TRUE, Packet |-> TRUE], TRUE, 0,
                               Dynamic, TRUE, PacketSize)
     IN  /\ dstType.Aligned = map.Aligned
         /\ dstType.Linear = map.Linear
         /\ dstType.Packet = map.Packet
  /\ dstType.Aligned /\ srcType.Aligned
  /\ dst.base % PacketSize = 0 /\ src.base % PacketSize = 0
  /\ dst.stride = innerSize(dstType, dst) + 1
  /\ src.stride = innerSize(dstType, dst)
  /\ \E i \in 1 .. Len(trace) :
        /\ trace[i][1] = "packet"
        /\ trace[i][5] = "Aligned"
        /\ (dst.base + trace[i][2]) % PacketSize = 0
        /\ (src.base + trace[i][3]) % PacketSize # 0


(***************************************************************************)
(* C28: under every interleaving of Schedule calls, worker loops and the   *)
(* destructor, each function passed to Schedule is executed exactly once   *)
(* (no function is begun twice, and once the destructor has returned every *)
(* function has been executed), no function is executed by a thread that   *)
(* holds mu_, and pending_ is non-empty only while waiters_ is empty.      *)
(***************************************************************************)
Scheduled == 1 .. pool.scheduled

NeverRunTwice == \A fn \in Scheduled : Occurrences(pool.started, fn) <= 1

NeverDropped ==
  pool.client = "destroyed" =>
    \A fn \in Scheduled : Occurrences(pool.started, fn) = 1 /\ fn \in pool.returned

RunsOutsideMutex ==
  \A w \in WorkerIds(pool) :
    pool.thread[w].at \in {"running", "notify"} => w \notin pool.mu

PendingOnlyWithoutWaiters == pool.pending # <<>> => pool.waiters = <<>>

C28_EachFunctionRunsOnceOutsideMutex ==
  pc = "pool" =>
    /\ NeverRunTwice
    /\ NeverDropped
    /\ RunsOutsideMutex
    /\ PendingOnlyWithoutWaiters

\* what holds of the claim when functions schedule functions
C28_AllButNeverDropped ==
  pc = "pool" =>
    /\ NeverRunTwice
    /\ RunsOutsideMutex
    /\ PendingOnlyWithoutWaiters

\* the destructor has returned and a function that a running function
\* scheduled is still in pending_, never begun
C28_FunctionLeftInPending ==
  /\ pc = "pool"
  /\ ~failed
  /\ pool.client = "destroyed"
  /\ pool.pending # <<>>
  /\ \E fn \in Scheduled : Occurrences(pool.started, fn) = 0

\* a function scheduled through the Waiter of a thread that has left
\* WorkerLoop
C28_ScheduledThroughStaleWaiter ==
  /\ pc = "pool"
  /\ pool.exiting
  /\ pool.waiters = <<>>
  /\ pool.pending = <<>>
  /\ \A w \in WorkerIds(pool) : pool.thread[w].at = "exited"
  /\ \E fn \in Scheduled : Occurrences(pool.started, fn) = 0


(***************************************************************************)
(* C29: functions that return and do not call Schedule being given, once   *)
(* ~ThreadPool has been entered it returns, for every pool size and every  *)
(* interleaving.                                                           *)
(***************************************************************************)
C29_DestructorReturns ==
  (pc = "pool" /\ pool.client # "scheduling") ~> (pool.client = "destroyed")

\* the same for the pools that have a thread
C29_DestructorReturnsWithAThread ==
  (pc = "pool" /\ pool.nthreads >= 1 /\ pool.client # "scheduling")
    ~> (pool.client = "destroyed" /\ pool.returned = Scheduled
        /\ \A w \in WorkerIds(pool) : pool.thread[w].at = "exited")

\* a pool of no thread whose destructor is blocked on empty_ with a
\* function in pending_: nothing will empty pending_
C29_EmptyPoolNeverDrains ==
  /\ pc = "pool"
  /\ pool.nthreads = 0
  /\ pool.client = "draining"
  /\ pool.pending # <<>>

\* a destructor that blocked on empty_, was notified by the worker that
\* took the last function, and has returned
C29_DrainedAndReturned ==
  /\ pc = "pool"
  /\ pool.client = "destroyed"
  /\ pool.nthreads = MaxWorkers
  /\ pool.scheduled = MaxFns
  /\ pool.returned = Scheduled

=============================================================================
